---- MODULE Spec2Model ----
(***************************************************************************)
(* luno/shift: the transition engine (GenFSM, ArcFSM), its builder and the *)
(* transactional insert/update protocol over a SQL table and a reflex      *)
(* events table.                                                           *)
(*                                                                         *)
(* The database is modelled as MySQL/InnoDB behaves for the statements the *)
(* generated row-mutators issue: an UPDATE ... WHERE id=? AND status=?     *)
(* takes the row lock until the transaction ends and reads the latest      *)
(* committed row, and reports the rows it changed, not the rows it matched;*)
(* auto-increment ids are not given back on rollback.                      *)
(***************************************************************************)
EXTENDS Integers, Sequences, FiniteSets, TLC

\* ------------------------------------------------------------------ bounds
MaxRows == 2
MaxEvents == 4
RaceEvents == 4

\* Callers running Insert/Update concurrently, each in its own transaction.
Procs == {"p1", "p2", "p3"}

RowIds == 1 .. MaxRows

\* The concurrent callers contend for one row, the first one inserted.
RaceIds == {1}

\* ------------------------------------------------------------------ errors
Nil == "nil"
ErrRowCount == "ErrRowCount"
ErrUnknownStatus == "ErrUnknownStatus"
ErrInvalidStateTransition == "ErrInvalidStateTransition"
ErrInvalidType == "ErrInvalidType"

\* Errors of the collaborators (database, request capabilities, event sink).
errBegin == "errBegin"
errExec == "errExec"
errMetadata == "errMetadata"
errEvents == "errEvents"
errValidate == "errValidate"
errCommit == "errCommit"

\* What may go wrong inside one InsertTx/UpdateTx call, chosen by the
\* environment: nothing, the row statement, GetMetadata, the event insert,
\* or Validate.
Faults == {"none", "exec", "meta", "events", "validate"}

\* ---------------------------------------------------------------- statuses
\* A Status value is a dynamic type and an integer; TestStatus is the
\* canonical implementation: ShiftStatus and ReflexType both return the integer.
St(ty, n) == [ty |-> ty, n |-> n]

ShiftStatus(s) == s.n

ReflexType(s) == s.n

StatusInit == St("TestStatus", 1)
StatusUpdate == St("TestStatus", 2)
StatusComplete == St("TestStatus", 3)
unknownShiftStatus == St("TestStatus", 999)

NoStatus == St("none", 0)

\* Status values callers pass to Update.
StatusArgs == {StatusInit, StatusUpdate, StatusComplete, unknownShiftStatus}

\* ----------------------------------------------------------- request types
\* A request value is its dynamic type and the ID field of updaters. The
\* request structs of the repository:
\*   insert, insert2   inserters without GetMetadata and Validate
\*   update, complete  updaters without GetMetadata and Validate
\*   move              the updater of the ArcFSM, without either
\*   i                 inserter with GetMetadata and Validate
\*   u                 updater with GetMetadata and Validate
\*   i_t, u_t          inserter and updater that carry their own timestamps,
\*                     without GetMetadata and Validate
\* and one that an application may write:
\*   both              a struct with an Insert and an Update method
Req(ty, id) == [ty |-> ty, ID |-> id]

\* The request types callers pass to Insert and to Update.
InserterTypes == {"i", "i_t", "insert", "insert2"}
UpdaterTypes == {"u", "u_t", "update", "complete"}

\* req.(Inserter) and req.(Updater): the type has the method.
IsInserter(req) == req.ty \in {"i", "i_t", "insert", "insert2", "both"}
IsUpdater(req) == req.ty \in {"u", "u_t", "update", "complete", "move", "both"}

\* The table the generated statements of a request type write (-table of its
\* go:generate line): i, u, i_t and u_t are generated for tests, the others
\* for users.
Table(req) ==
    IF req.ty \in {"i", "u", "i_t", "u_t"} THEN "tests"
    ELSE IF req.ty \in {"insert", "insert2", "update", "complete", "move", "both"}
         THEN "users"
         ELSE "none"

HasMetadata(req) == req.ty \in {"i", "u"}
HasValidate(req) == req.ty \in {"i", "u"}

sameTypeAny(a, b) == TRUE

\* Types compared by their underlying structure.
sameTypeUnderlying(a, b) == a.under = b.under

sameType(a, b) == a.ty = b.ty

\* ------------------------------------------------------------------ builder
options(withMetadata, withValidation) ==
    [withMetadata |-> withMetadata, withValidation |-> withValidation]

NoNode == [st |-> NoStatus, t |-> NoStatus, req |-> Req("none", 0),
           insert |-> FALSE, next |-> {}]

\* fsm.states is a map from ShiftStatus() to status; a missing key reads as
\* the zero status.
Lookup(states, k) == IF k \in DOMAIN states THEN states[k] ELSE NoNode

Put(states, k, v) == [x \in (DOMAIN states) \cup {k} |-> IF x = k THEN v ELSE states[x]]

toMap(sl) == sl

NewGenFSM(opts) ==
    [states |-> <<>>, insertStatus |-> NoStatus, opts |-> opts, panic |-> FALSE]

initerInsert(c, st, inserter, next) ==
    [c EXCEPT !.states = Put(c.states, ShiftStatus(st),
                             [st |-> st, req |-> inserter, t |-> st,
                              insert |-> FALSE, next |-> toMap(next)]),
              !.insertStatus = st]

\* builder.Update without the check for an already declared status.
builderUpdateOverwrite(b, st, updater, next) ==
    [b EXCEPT !.states = Put(b.states, ShiftStatus(st),
                             [st |-> st, req |-> updater, t |-> st,
                              insert |-> FALSE, next |-> toMap(next)])]

builderUpdate(b, st, updater, next) ==
    IF ShiftStatus(st) \in DOMAIN b.states
    THEN [b EXCEPT !.panic = TRUE]
    ELSE [b EXCEPT !.states = Put(b.states, ShiftStatus(st),
                                  [st |-> st, req |-> updater, t |-> st,
                                   insert |-> FALSE, next |-> toMap(next)])]

Build(b) == b

\* s(i) of the tests: TestStatus(i).
TestStatus(n) == St("TestStatus", n)

\* The fsm of the package tests: the chain Init -> Update -> Complete, no
\* option, requests without GetMetadata and Validate.
BasicGraph ==
    Build(builderUpdate(
            builderUpdate(
              initerInsert(NewGenFSM(options(FALSE, FALSE)), StatusInit,
                           Req("insert", 0), {StatusUpdate}),
              StatusUpdate, Req("update", 0), {StatusComplete}),
            StatusComplete, Req("complete", 0), {}))

\* The fsm of TestWithValidation: validation on, a self-loop at TestStatus(2).
ValidationGraph ==
    Build(builderUpdate(
            initerInsert(NewGenFSM(options(FALSE, TRUE)), TestStatus(1), Req("i", 0), {TestStatus(2)}),
            TestStatus(2), Req("u", 0), {TestStatus(2)}))

\* The fsm of TestWithMeta: metadata on.
MetaGraph ==
    Build(builderUpdate(
            initerInsert(NewGenFSM(options(TRUE, FALSE)), TestStatus(1), Req("i", 0), {TestStatus(2)}),
            TestStatus(2), Req("u", 0), {}))

\* The fsms of the cases "insert update", "cycle" and "loop" of TestTestFSM.
InsertUpdateGraph ==
    Build(builderUpdate(
            initerInsert(NewGenFSM(options(FALSE, FALSE)), TestStatus(1), Req("i", 0), {TestStatus(2)}),
            TestStatus(2), Req("u", 0), {}))

CycleGraph ==
    Build(builderUpdate(
            initerInsert(NewGenFSM(options(FALSE, FALSE)), TestStatus(1), Req("i", 0), {TestStatus(2)}),
            TestStatus(2), Req("u", 0), {TestStatus(1)}))

LoopGraph ==
    Build(builderUpdate(
            initerInsert(NewGenFSM(options(FALSE, FALSE)), TestStatus(1), Req("i", 0), {TestStatus(2)}),
            TestStatus(2), Req("u", 0), {TestStatus(2)}))

\* A graph of an application with a self-loop and another edge out of the
\* same status:
\* NewFSM(events).Insert(TestStatus(1), i{}, TestStatus(2)).
\* Update(TestStatus(2), u{}, TestStatus(2), TestStatus(3)).Update(TestStatus(3), u{}).Build()
MixedGraph ==
    Build(builderUpdate(
            builderUpdate(
              initerInsert(NewGenFSM(options(FALSE, FALSE)), TestStatus(1), Req("i", 0), {TestStatus(2)}),
              TestStatus(2), Req("u", 0), {TestStatus(2), TestStatus(3)}),
            TestStatus(3), Req("u", 0), {}))

\* A graph of an application that turns both options on:
\* NewFSM(events, WithMetadata(), WithValidation()).Insert(TestStatus(1), i{}, TestStatus(2)).
\* Update(TestStatus(2), u{}, TestStatus(2)).Build()
FullGraph ==
    Build(builderUpdate(
            initerInsert(NewGenFSM(options(TRUE, TRUE)), TestStatus(1), Req("i", 0), {TestStatus(2)}),
            TestStatus(2), Req("u", 0), {TestStatus(2)}))

\* A graph of an application whose insert request also has an Update method,
\* with an edge back to the insert status:
\* NewFSM(events).Insert(TestStatus(1), both{}, TestStatus(2)).Update(TestStatus(2), update{}, TestStatus(1)).Build()
BothGraph ==
    Build(builderUpdate(
            initerInsert(NewGenFSM(options(FALSE, FALSE)), TestStatus(1), Req("both", 0), {TestStatus(2)}),
            TestStatus(2), Req("update", 0), {TestStatus(1)}))

\* A graph over the table tests whose first update request, and whose insert
\* request if ty is i_t, lack GetMetadata and Validate:
\* i{}/i_t{} -> u_t{} -> u{}.
CapGraph(opts, ty) ==
    Build(builderUpdate(
            builderUpdate(
              initerInsert(NewGenFSM(opts), StatusInit, Req(ty, 0), {StatusUpdate}),
              StatusUpdate, Req("u_t", 0), {StatusComplete}),
            StatusComplete, Req("u", 0), {}))

\* The request types bound in g are generated for one table. Every graph
\* below is such a graph, and the rows of a run are the rows of that table.
OneTable(g) ==
    \A a, b \in DOMAIN g.states : Table(g.states[a].req) = Table(g.states[b].req)

\* A graph whose next lists name a status before its declaration
\* (StatusUpdate) and a status that is never declared (StatusComplete).
LateGraph(opts) ==
    Build(builderUpdate(
            initerInsert(NewGenFSM(opts), StatusInit, Req("i", 0),
                         {StatusUpdate, StatusComplete}),
            StatusUpdate, Req("u", 0), {StatusComplete}))

\* A Status of another Go type with the ordinal of StatusUpdate.
OtherUpdate == St("OtherStatus", 2)

LateArgs == {StatusInit, StatusUpdate, StatusComplete, OtherUpdate}

\* ------------------------------------------------------- request capabilities
NoRow == -1

NoWrite == [id |-> 0, st |-> NoRow]

\* Inserter.Insert of a generated inserter: one INSERT statement with
\* status = st.ShiftStatus(); the id is the table's next auto-increment value.
\* The fault "exec" is an error of the statement, or of the method before it
\* (i_t and u_t return one when a timestamp field is not set).
InserterInsert(inserter, st, newId, fault) ==
    IF fault = "exec"
    THEN [id |-> 0, err |-> errExec, row |-> NoWrite]
    ELSE [id |-> newId, err |-> Nil, row |-> [id |-> newId, st |-> ShiftStatus(st)]]

\* res.RowsAffected() of the generated UPDATE. The WHERE clause is `id`=? and
\* `status`=?; cur is the stored status of row updater.ID (NoRow when there is
\* no such row). The connection counts the rows the statement changed, not
\* the rows it matched: a matched row whose columns (status, updated_at to
\* the second, the request fields) all hold the values being written counts
\* as 0. That can only be when from and to are the same status; whether it is
\* so is the environment's choice "unchanged".
RowsAffectedAnyStatus(updater, from, to, cur, fault) == IF cur # NoRow THEN 1 ELSE 0

RowsAffected(updater, from, to, cur, fault) ==
    IF cur = NoRow \/ cur # ShiftStatus(from) THEN 0
    ELSE IF ShiftStatus(to) = cur /\ fault = "unchanged" THEN 0
    ELSE 1

\* The choices of the environment for the row statement of an Update
\* from -> to next to Faults.
RowChoices(from, to) ==
    IF ShiftStatus(from) = ShiftStatus(to) THEN {"unchanged"} ELSE {}

\* Updater.Update of a generated updater.
UpdaterUpdate(updater, from, to, cur, fault) ==
    IF fault = "exec"
    THEN [id |-> 0, err |-> errExec, row |-> NoWrite]
    ELSE IF RowsAffected(updater, from, to, cur, fault) # 1
         THEN [id |-> 0, err |-> ErrRowCount, row |-> NoWrite]
         ELSE [id |-> updater.ID, err |-> Nil,
               row |-> [id |-> updater.ID, st |-> ShiftStatus(to)]]

\* []byte(fmt.Sprint(n)) of a non-negative integer: the ASCII codes of its
\* decimal digits.
RECURSIVE Sprint(_)
Sprint(n) == IF n < 10 THEN <<48 + n>> ELSE Sprint(n \div 10) \o <<48 + (n % 10)>>

\* GetMetadata of the test requests: the id, printed.
InserterGetMetadata(inserter, id, st) == Sprint(id)

UpdaterGetMetadata(updater, from, to) == Sprint(updater.ID)

\* Event storing no metadata.
EventNoMetadata(foreignID, typ, metadata) ==
    [fid |-> foreignID, typ |-> ReflexType(typ), meta |-> <<>>]

\* events.InsertWithMetadata: the event row staged in the transaction.
Event(foreignID, typ, metadata) ==
    [fid |-> foreignID, typ |-> ReflexType(typ), meta |-> metadata]

\* ------------------------------------------------------------ insertTx/updateTx
\* What one transaction-scoped call did: the returned id, whether a notifier
\* was returned, the error, the capabilities invoked in order, and the row
\* write and event left staged in the caller's transaction.
Res(id, notify, err, steps, row, ev) ==
    [id |-> id, notify |-> notify, err |-> err, steps |-> steps, row |-> row, ev |-> ev]

\* TxTail skipping metadata or validation when the request lacks the
\* capability.
TxTailSkipMissing(id, opts, hasMeta, metadata, hasValidate, eventType, row, fault) ==
    LET withMeta == opts.withMetadata /\ hasMeta
        withVal == opts.withValidation /\ hasValidate
    IN  IF withMeta /\ fault = "meta"
        THEN Res(0, FALSE, errMetadata, <<"mutate", "metadata">>, row, <<>>)
        ELSE LET md == IF withMeta THEN metadata ELSE <<>>
                 s1 == IF withMeta THEN <<"mutate", "metadata">> ELSE <<"mutate">>
             IN  IF fault = "events"
                 THEN Res(0, FALSE, errEvents, s1 \o <<"emit">>, row, <<>>)
                 ELSE LET ev == <<Event(id, eventType, md)>>
                          s2 == s1 \o <<"emit">>
                      IN  IF withVal /\ fault = "validate"
                          THEN Res(0, FALSE, errValidate, s2 \o <<"validate">>, row, ev)
                          ELSE Res(id, TRUE, Nil,
                                   IF withVal THEN s2 \o <<"validate">> ELSE s2,
                                   row, ev)

\* TxTail replacing the errors of GetMetadata and Validate by ErrInvalidType.
TxTailWrapErrors(id, opts, hasMeta, metadata, hasValidate, eventType, row, fault) ==
    IF opts.withMetadata /\ ~hasMeta
    THEN Res(0, FALSE, ErrInvalidType, <<"mutate">>, row, <<>>)
    ELSE IF opts.withMetadata /\ fault = "meta"
    THEN Res(0, FALSE, ErrInvalidType, <<"mutate", "metadata">>, row, <<>>)
    ELSE LET md == IF opts.withMetadata THEN metadata ELSE <<>>
             s1 == IF opts.withMetadata THEN <<"mutate", "metadata">> ELSE <<"mutate">>
         IN  IF fault = "events"
             THEN Res(0, FALSE, errEvents, s1 \o <<"emit">>, row, <<>>)
             ELSE LET ev == <<Event(id, eventType, md)>>
                      s2 == s1 \o <<"emit">>
                  IN  IF opts.withValidation /\ ~hasValidate
                      THEN Res(0, FALSE, ErrInvalidType, s2, row, ev)
                      ELSE IF opts.withValidation /\ fault = "validate"
                      THEN Res(0, FALSE, ErrInvalidType, s2 \o <<"validate">>, row, ev)
                      ELSE Res(id, TRUE, Nil,
                               IF opts.withValidation THEN s2 \o <<"validate">> ELSE s2,
                               row, ev)

\* TxTail with Validate run before the event insert.
TxTailValidateFirst(id, opts, hasMeta, metadata, hasValidate, eventType, row, fault) ==
    IF opts.withMetadata /\ ~hasMeta
    THEN Res(0, FALSE, ErrInvalidType, <<"mutate">>, row, <<>>)
    ELSE IF opts.withMetadata /\ fault = "meta"
    THEN Res(0, FALSE, errMetadata, <<"mutate", "metadata">>, row, <<>>)
    ELSE LET md == IF opts.withMetadata THEN metadata ELSE <<>>
             s1 == IF opts.withMetadata THEN <<"mutate", "metadata">> ELSE <<"mutate">>
         IN  IF opts.withValidation /\ ~hasValidate
             THEN Res(0, FALSE, ErrInvalidType, s1, row, <<>>)
             ELSE IF opts.withValidation /\ fault = "validate"
             THEN Res(0, FALSE, errValidate, s1 \o <<"validate">>, row, <<>>)
             ELSE LET s2 == IF opts.withValidation THEN s1 \o <<"validate">> ELSE s1
                  IN  IF fault = "events"
                      THEN Res(0, FALSE, errEvents, s2 \o <<"emit">>, row, <<>>)
                      ELSE Res(id, TRUE, Nil, s2 \o <<"emit">>,
                               row, <<Event(id, eventType, md)>>)

\* TxTail returning the identifier and the notifier next to an error of the
\* validation step.
TxTailKeepResult(id, opts, hasMeta, metadata, hasValidate, eventType, row, fault) ==
    IF opts.withMetadata /\ ~hasMeta
    THEN Res(0, FALSE, ErrInvalidType, <<"mutate">>, row, <<>>)
    ELSE IF opts.withMetadata /\ fault = "meta"
    THEN Res(0, FALSE, errMetadata, <<"mutate", "metadata">>, row, <<>>)
    ELSE LET md == IF opts.withMetadata THEN metadata ELSE <<>>
             s1 == IF opts.withMetadata THEN <<"mutate", "metadata">> ELSE <<"mutate">>
         IN  IF fault = "events"
             THEN Res(0, FALSE, errEvents, s1 \o <<"emit">>, row, <<>>)
             ELSE LET ev == <<Event(id, eventType, md)>>
                      s2 == s1 \o <<"emit">>
                  IN  IF opts.withValidation /\ ~hasValidate
                      THEN Res(id, TRUE, ErrInvalidType, s2, row, ev)
                      ELSE IF opts.withValidation /\ fault = "validate"
                      THEN Res(id, TRUE, errValidate, s2 \o <<"validate">>, row, ev)
                      ELSE Res(id, TRUE, Nil,
                               IF opts.withValidation THEN s2 \o <<"validate">> ELSE s2,
                               row, ev)

\* TxTail calling GetMetadata and Validate of every request that has them,
\* whatever the options.
TxTailIgnoreOptions(id, opts, hasMeta, metadata, hasValidate, eventType, row, fault) ==
    IF opts.withMetadata /\ ~hasMeta
    THEN Res(0, FALSE, ErrInvalidType, <<"mutate">>, row, <<>>)
    ELSE IF hasMeta /\ fault = "meta"
    THEN Res(0, FALSE, errMetadata, <<"mutate", "metadata">>, row, <<>>)
    ELSE LET md == IF hasMeta THEN metadata ELSE <<>>
             s1 == IF hasMeta THEN <<"mutate", "metadata">> ELSE <<"mutate">>
         IN  IF fault = "events"
             THEN Res(0, FALSE, errEvents, s1 \o <<"emit">>, row, <<>>)
             ELSE LET ev == <<Event(id, eventType, md)>>
                      s2 == s1 \o <<"emit">>
                  IN  IF opts.withValidation /\ ~hasValidate
                      THEN Res(0, FALSE, ErrInvalidType, s2, row, ev)
                      ELSE IF hasValidate /\ fault = "validate"
                      THEN Res(0, FALSE, errValidate, s2 \o <<"validate">>, row, ev)
                      ELSE Res(id, TRUE, Nil,
                               IF hasValidate THEN s2 \o <<"validate">> ELSE s2,
                               row, ev)

\* insertTx (after the row insert) and updateTx (after the row update):
\* metadata, event insert, validation.
TxTail(id, opts, hasMeta, metadata, hasValidate, eventType, row, fault) ==
    IF opts.withMetadata /\ ~hasMeta
    THEN Res(0, FALSE, ErrInvalidType, <<"mutate">>, row, <<>>)
    ELSE IF opts.withMetadata /\ fault = "meta"
    THEN Res(0, FALSE, errMetadata, <<"mutate", "metadata">>, row, <<>>)
    ELSE LET md == IF opts.withMetadata THEN metadata ELSE <<>>
             s1 == IF opts.withMetadata THEN <<"mutate", "metadata">> ELSE <<"mutate">>
         IN  IF fault = "events"
             THEN Res(0, FALSE, errEvents, s1 \o <<"emit">>, row, <<>>)
             ELSE LET ev == <<Event(id, eventType, md)>>
                      s2 == s1 \o <<"emit">>
                  IN  IF opts.withValidation /\ ~hasValidate
                      THEN Res(0, FALSE, ErrInvalidType, s2, row, ev)
                      ELSE IF opts.withValidation /\ fault = "validate"
                      THEN Res(0, FALSE, errValidate, s2 \o <<"validate">>, row, ev)
                      ELSE Res(id, TRUE, Nil,
                               IF opts.withValidation THEN s2 \o <<"validate">> ELSE s2,
                               row, ev)

insertTx(st, inserter, eventType, opts, newId, fault) ==
    LET ins == InserterInsert(inserter, st, newId, fault)
    IN  IF ins.err # Nil
        THEN Res(0, FALSE, ins.err, <<"mutate">>, NoWrite, <<>>)
        ELSE TxTail(ins.id, opts, HasMetadata(inserter),
                    InserterGetMetadata(inserter, ins.id, st),
                    HasValidate(inserter), eventType, ins.row, fault)

updateTx(from, to, updater, eventType, opts, cur, fault) ==
    LET upd == UpdaterUpdate(updater, from, to, cur, fault)
    IN  IF upd.err # Nil
        THEN Res(0, FALSE, upd.err, <<"mutate">>, NoWrite, <<>>)
        ELSE TxTail(upd.id, opts, HasMetadata(updater),
                    UpdaterGetMetadata(updater, from, to),
                    HasValidate(updater), eventType, upd.row, fault)

\* GenFSM.InsertTx
InsertTx(fsm, inserter, newId, fault) ==
    LET st == fsm.insertStatus
    IN  IF ~sameType(Lookup(fsm.states, ShiftStatus(st)).req, inserter)
        THEN Res(0, FALSE, ErrInvalidType, <<>>, NoWrite, <<>>)
        ELSE insertTx(st, inserter, Lookup(fsm.states, ShiftStatus(st)).t,
                      fsm.opts, newId, fault)

\* UpdateTx without the membership test of `to` in next(from).
UpdateTxNoEdgeCheck(fsm, from, to, updater, cur, fault) ==
    IF ShiftStatus(to) \notin DOMAIN fsm.states
    THEN Res(0, FALSE, ErrUnknownStatus, <<>>, NoWrite, <<>>)
    ELSE LET t == fsm.states[ShiftStatus(to)]
         IN  IF ~sameType(t.req, updater)
             THEN Res(0, FALSE, ErrInvalidType, <<>>, NoWrite, <<>>)
             ELSE IF ShiftStatus(from) \notin DOMAIN fsm.states
             THEN Res(0, FALSE, ErrUnknownStatus, <<>>, NoWrite, <<>>)
             ELSE updateTx(from, to, updater, t.t, fsm.opts, cur, fault)

\* UpdateTx reading the zero status for an undeclared `from`.
UpdateTxNoFromCheck(fsm, from, to, updater, cur, fault) ==
    IF ShiftStatus(to) \notin DOMAIN fsm.states
    THEN Res(0, FALSE, ErrUnknownStatus, <<>>, NoWrite, <<>>)
    ELSE LET t == fsm.states[ShiftStatus(to)]
         IN  IF ~sameType(t.req, updater)
             THEN Res(0, FALSE, ErrInvalidType, <<>>, NoWrite, <<>>)
             ELSE IF to \notin Lookup(fsm.states, ShiftStatus(from)).next
             THEN Res(0, FALSE, ErrInvalidStateTransition, <<>>, NoWrite, <<>>)
             ELSE updateTx(from, to, updater, t.t, fsm.opts, cur, fault)

\* UpdateTx emitting the event type of `from`.
UpdateTxFromTag(fsm, from, to, updater, cur, fault) ==
    IF ShiftStatus(to) \notin DOMAIN fsm.states
    THEN Res(0, FALSE, ErrUnknownStatus, <<>>, NoWrite, <<>>)
    ELSE LET t == fsm.states[ShiftStatus(to)]
         IN  IF ~sameType(t.req, updater)
             THEN Res(0, FALSE, ErrInvalidType, <<>>, NoWrite, <<>>)
             ELSE IF ShiftStatus(from) \notin DOMAIN fsm.states
             THEN Res(0, FALSE, ErrUnknownStatus, <<>>, NoWrite, <<>>)
             ELSE IF to \notin fsm.states[ShiftStatus(from)].next
             THEN Res(0, FALSE, ErrInvalidStateTransition, <<>>, NoWrite, <<>>)
             ELSE updateTx(from, to, updater, fsm.states[ShiftStatus(from)].t,
                           fsm.opts, cur, fault)

\* UpdateTx without the lookup of `to` failing on a missing entry.
UpdateTxNoToCheck(fsm, from, to, updater, cur, fault) ==
    LET t == Lookup(fsm.states, ShiftStatus(to))
    IN  IF ~sameType(t.req, updater)
        THEN Res(0, FALSE, ErrInvalidType, <<>>, NoWrite, <<>>)
        ELSE IF ShiftStatus(from) \notin DOMAIN fsm.states
        THEN Res(0, FALSE, ErrUnknownStatus, <<>>, NoWrite, <<>>)
        ELSE IF to \notin fsm.states[ShiftStatus(from)].next
        THEN Res(0, FALSE, ErrInvalidStateTransition, <<>>, NoWrite, <<>>)
        ELSE updateTx(from, to, updater, t.t, fsm.opts, cur, fault)

\* UpdateTx comparing the request type after the graph checks.
UpdateTxTypeLast(fsm, from, to, updater, cur, fault) ==
    IF ShiftStatus(to) \notin DOMAIN fsm.states
    THEN Res(0, FALSE, ErrUnknownStatus, <<>>, NoWrite, <<>>)
    ELSE LET t == fsm.states[ShiftStatus(to)]
         IN  IF ShiftStatus(from) \notin DOMAIN fsm.states
             THEN Res(0, FALSE, ErrUnknownStatus, <<>>, NoWrite, <<>>)
             ELSE IF to \notin fsm.states[ShiftStatus(from)].next
             THEN Res(0, FALSE, ErrInvalidStateTransition, <<>>, NoWrite, <<>>)
             ELSE IF ~sameType(t.req, updater)
             THEN Res(0, FALSE, ErrInvalidType, <<>>, NoWrite, <<>>)
             ELSE updateTx(from, to, updater, t.t, fsm.opts, cur, fault)

\* GenFSM.UpdateTx
UpdateTx(fsm, from, to, updater, cur, fault) ==
    IF ShiftStatus(to) \notin DOMAIN fsm.states
    THEN Res(0, FALSE, ErrUnknownStatus, <<>>, NoWrite, <<>>)
    ELSE LET t == fsm.states[ShiftStatus(to)]
         IN  IF ~sameType(t.req, updater)
             THEN Res(0, FALSE, ErrInvalidType, <<>>, NoWrite, <<>>)
             ELSE IF ShiftStatus(from) \notin DOMAIN fsm.states
             THEN Res(0, FALSE, ErrUnknownStatus, <<>>, NoWrite, <<>>)
             ELSE IF to \notin fsm.states[ShiftStatus(from)].next
             THEN Res(0, FALSE, ErrInvalidStateTransition, <<>>, NoWrite, <<>>)
             ELSE updateTx(from, to, updater, t.t, fsm.opts, cur, fault)


\* ------------------------------------------------------------------- ArcFSM
tuple(status, type) == [Status |-> status, Type |-> type]

NewArcFSM(opts) == [inserts |-> <<>>, updates |-> <<>>, opts |-> opts]

arcbuilderInsert(b, st, inserter) ==
    [b EXCEPT !.inserts = Append(@, tuple(ShiftStatus(st), inserter))]

arcbuilderUpdate(b, from, to, updater) ==
    LET tups == IF ShiftStatus(from) \in DOMAIN b.updates
                THEN b.updates[ShiftStatus(from)] ELSE <<>>
    IN  [b EXCEPT !.updates = Put(@, ShiftStatus(from),
                                  Append(tups, tuple(ShiftStatus(to), updater)))]

arcbuilderBuild(b) == b

\* afsm of TestArcFSM: two ways to insert (insert{}, insert2{}), and a move
\* back to Init from Update with move{}; no option.
TestArcGraph ==
    arcbuilderBuild(
      arcbuilderUpdate(
        arcbuilderUpdate(
          arcbuilderInsert(
            arcbuilderInsert(NewArcFSM(options(FALSE, FALSE)), StatusInit,
                             Req("insert", 0)),
            StatusInit, Req("insert2", 0)),
          StatusInit, StatusUpdate, Req("move", 0)),
        StatusUpdate, StatusInit, Req("move", 0)))

\* The request types callers pass to ArcFSM.Insert and ArcFSM.Update.
ArcInserterTypes == {"insert", "insert2", "i"}
ArcUpdaterTypes == {"move", "update"}

\* The tuple search matching on the status alone.
FoundAnyType(tl, st, req) ==
    \E k \in 1 .. Len(tl) : tl[k].Status = ShiftStatus(st)

Found(tl, st, req) ==
    \E k \in 1 .. Len(tl) : tl[k].Status = ShiftStatus(st) /\ sameType(tl[k].Type, req)

\* ArcFSM.InsertTx
ArcInsertTx(a, st, inserter, newId, fault) ==
    IF ~Found(a.inserts, st, inserter)
    THEN Res(0, FALSE, ErrInvalidStateTransition, <<>>, NoWrite, <<>>)
    ELSE insertTx(st, inserter, st, a.opts, newId, fault)

\* ArcFSM.UpdateTx emitting the event type of `from`.
ArcUpdateTxFromTag(a, from, to, updater, cur, fault) ==
    IF ShiftStatus(from) \notin DOMAIN a.updates
    THEN Res(0, FALSE, ErrInvalidStateTransition, <<>>, NoWrite, <<>>)
    ELSE IF ~Found(a.updates[ShiftStatus(from)], to, updater)
         THEN Res(0, FALSE, ErrInvalidStateTransition, <<>>, NoWrite, <<>>)
         ELSE updateTx(from, to, updater, from, a.opts, cur, fault)

\* ArcFSM.UpdateTx
ArcUpdateTx(a, from, to, updater, cur, fault) ==
    IF ShiftStatus(from) \notin DOMAIN a.updates
    THEN Res(0, FALSE, ErrInvalidStateTransition, <<>>, NoWrite, <<>>)
    ELSE IF ~Found(a.updates[ShiftStatus(from)], to, updater)
         THEN Res(0, FALSE, ErrInvalidStateTransition, <<>>, NoWrite, <<>>)
         ELSE updateTx(from, to, updater, to, a.opts, cur, fault)

\* =========================================================================
\* The executor over a database: rows and events tables, one transaction per
\* convenience call.
\* =========================================================================
VARIABLES
    fsm,      \* the built GenFSM (read-only after Build)
    afsm,     \* the built ArcFSM (read-only after Build)
    rows,     \* committed status of each row of the user table, NoRow if absent
    nextId,   \* the user table's auto-increment counter
    evlog,    \* the events table in insertion order; tx is "c" once committed
    tx,       \* per caller: the row write staged (and row lock held) by its open transaction
    pc,       \* per caller: position in Insert/Update
    call,     \* per caller: the current (or last finished) call: its arguments, what it
              \* did and returned; pre is the stored status of the target row when it
              \* began, conc the callers whose transaction was open then (and who
              \* are still in that call), seen the callers that committed on its
              \* row while its transaction was open ("past" for a caller that has
              \* begun another call since)
    hist,     \* per row: the statuses committed to it, in order
    bld,      \* a program using the builder: the states map made by NewGenFSM and
              \* the initer, builder and *GenFSM values that share it
    ver       \* a run of the verifier TestFSM on fsm

vars == <<fsm, afsm, rows, nextId, evlog, tx, pc, call, hist, bld, ver>>

\* No builder program and no verifier run.
NoBuild == [states |-> <<>>]

NoRun == [pc |-> "none"]

NoCall == [op |-> "none", from |-> NoStatus, to |-> NoStatus, req |-> Req("none", 0),
           fault |-> "none", steps |-> <<>>, err |-> Nil, id |-> 0, notify |-> FALSE,
           pre |-> NoRow, conc |-> {}, seen |-> {}, typ |-> NoStatus]

\* The call of p is inside InsertTx/UpdateTx: at its entry (begun), past the
\* first read of fsm.states (typed), past the second (checked), or past its
\* row statement (mutated).
InTx(p) == pc[p] \in {"begun", "typed", "checked", "mutated"}

\* The transaction of the call of p is open: begun, not yet committed or
\* rolled back.
Open(p) == InTx(p) \/ pc[p] = "txdone"

\* Events of the table that are committed, and those of one row.
Committed(log) == SelectSeq(log, LAMBDA e : e.tx = "c")

EventsOf(log, id) == SelectSeq(log, LAMBDA e : e.tx = "c" /\ e.fid = id)

\* The graphs the one-caller executor is run on.
SpecGraphs == {BasicGraph, ValidationGraph, MetaGraph, CycleGraph, FullGraph}

\* After setup(t): the tables are empty, no call has been made.
Setup ==
    /\ afsm = TestArcGraph
    /\ rows = [r \in RowIds |-> NoRow]
    /\ nextId = 1
    /\ evlog = <<>>
    /\ tx = [p \in Procs |-> NoWrite]
    /\ pc = [p \in Procs |-> "idle"]
    /\ call = [p \in Procs |-> NoCall]
    /\ hist = [r \in RowIds |-> <<>>]
    /\ bld = NoBuild
    /\ ver = NoRun

Init ==
    /\ fsm \in SpecGraphs
    /\ Setup

\* The record of a call once p has left the call it was seen in.
Left(c, p) ==
    [c EXCEPT !.conc = @ \ {p},
              !.seen = IF p \in @ THEN (@ \ {p}) \cup {"past"} ELSE @]

\* The calls after p has begun call c.
Begun(p, c) ==
    [q \in Procs |->
        IF q = p
        THEN [c EXCEPT !.conc = {r \in Procs \ {p} : Open(r)}]
        ELSE Left(call[q], p)]

\* A new call of p: dbc.Begin(). The call is bounded by the table sizes.
StartCall(p, c, maxEvents) ==
    /\ pc[p] = "idle"
    /\ Len(evlog) + Cardinality({q \in Procs : InTx(q)}) < maxEvents
    /\ pc' = [pc EXCEPT ![p] = "begun"]
    /\ call' = Begun(p, c)
    /\ UNCHANGED <<bld, ver, fsm, afsm, rows, nextId, evlog, tx, hist>>

\* GenFSM.Insert up to and including dbc.Begin().
Insert(p) ==
    \E ty \in InserterTypes :
        /\ nextId <= MaxRows
        /\ StartCall(p, [NoCall EXCEPT !.op = "Insert", !.req = Req(ty, 0)], MaxEvents)

\* GenFSM.Update up to and including dbc.Begin().
Update(p) ==
    \E from \in StatusArgs, to \in StatusArgs, ty \in UpdaterTypes, id \in RowIds :
        StartCall(p, [NoCall EXCEPT !.op = "Update", !.from = from, !.to = to,
                                    !.req = Req(ty, id), !.pre = rows[id]], MaxEvents)

\* dbc.Begin() fails in Insert or Update: the call returns the error and has
\* done nothing else.
BeginFails(p) ==
    /\ pc[p] = "idle"
    /\ \E op \in {"Insert", "Update"} :
        call' = [q \in Procs |->
                   IF q = p THEN [NoCall EXCEPT !.op = op, !.err = errBegin]
                   ELSE Left(call[q], p)]
    /\ UNCHANGED <<bld, ver, fsm, afsm, rows, nextId, evlog, tx, pc, hist>>

\* The calls of the concurrent callers: inserts of the bound type, and updates
\* over the declared edges and over Complete -> Update (not an edge), each
\* with the request type bound to its target.
RaceEdges ==
    {e \in StatusArgs \X StatusArgs :
        /\ ShiftStatus(e[1]) \in DOMAIN fsm.states
        /\ \/ e[2] \in fsm.states[ShiftStatus(e[1])].next
           \/ e = <<StatusComplete, StatusUpdate>>}

\* An Insert call of q that has not yet run its row statement.
Pending(q) == call[q].op = "Insert" /\ pc[q] \in {"begun", "typed", "checked"}

RaceInsert(p) ==
    /\ nextId + Cardinality({q \in Procs : Pending(q)}) \in RaceIds
    /\ StartCall(p, [NoCall EXCEPT !.op = "Insert",
                        !.req = Req(fsm.states[ShiftStatus(fsm.insertStatus)].req.ty, 0)],
                 RaceEvents)

RaceUpdate(p) ==
    \E e \in RaceEdges, id \in RaceIds :
        StartCall(p, [NoCall EXCEPT !.op = "Update", !.from = e[1], !.to = e[2],
                                    !.req = Req(fsm.states[ShiftStatus(e[2])].req.ty, id),
                                    !.pre = rows[id]], RaceEvents)

\* The effect of a transaction-scoped call on p's open transaction.
Stage(p, r, fault) ==
    /\ tx' = [tx EXCEPT ![p] = r.row]
    /\ evlog' = evlog \o [k \in 1 .. Len(r.ev) |-> [fid |-> r.ev[k].fid, typ |-> r.ev[k].typ,
                                                      meta |-> r.ev[k].meta, tx |-> p]]
    /\ call' = [call EXCEPT ![p].steps = r.steps, ![p].err = r.err, ![p].id = r.id,
                            ![p].notify = r.notify,
                            ![p].fault = IF r.steps = <<>> THEN "none" ELSE fault]
    /\ pc' = [pc EXCEPT ![p] = "txdone"]

\* fsm.InsertTx(ctx, tx, inserter) inside Insert.
DoInsertTx(p) ==
    /\ pc[p] = "begun"
    /\ call[p].op = "Insert"
    /\ \E fault \in Faults :
        LET r == InsertTx(fsm, call[p].req, nextId, fault)
        IN  /\ Stage(p, r, fault)
            /\ nextId' = IF r.row # NoWrite THEN nextId + 1 ELSE nextId
    /\ UNCHANGED <<bld, ver, fsm, afsm, rows, hist>>

\* Another open transaction holds the lock of row id.
Locked(p, id) == \E q \in Procs \ {p} : tx[q].id = id

\* fsm.UpdateTx(ctx, tx, from, to, updater) inside Update. The UPDATE
\* statement waits for the row lock.
DoUpdateTx(p) ==
    /\ pc[p] = "begun"
    /\ call[p].op = "Update"
    /\ \E fault \in Faults \cup RowChoices(call[p].from, call[p].to) :
        LET c == call[p]
            r == UpdateTx(fsm, c.from, c.to, c.req, rows[c.req.ID], fault)
        IN  /\ ("mutate" \in {r.steps[k] : k \in 1 .. Len(r.steps)} /\ fault # "exec")
                    => ~Locked(p, c.req.ID)
            /\ Stage(p, r, fault)
    /\ UNCHANGED <<bld, ver, fsm, afsm, rows, nextId, hist>>

\* tx.Rollback(): the staged row write and events of p are discarded.
Discard(p) ==
    /\ tx' = [tx EXCEPT ![p] = NoWrite]
    /\ evlog' = SelectSeq(evlog, LAMBDA e : e.tx # p)

\* ReturnErr with the transaction committed instead of rolled back.
ReturnErrCommits(p) ==
    /\ pc[p] = "txdone"
    /\ call[p].err # Nil
    /\ rows' = IF tx[p] # NoWrite THEN [rows EXCEPT ![tx[p].id] = tx[p].st] ELSE rows
    /\ hist' = IF tx[p] # NoWrite THEN [hist EXCEPT ![tx[p].id] = Append(@, tx[p].st)] ELSE hist
    /\ evlog' = [k \in 1 .. Len(evlog) |->
                    IF evlog[k].tx = p THEN [evlog[k] EXCEPT !.tx = "c"] ELSE evlog[k]]
    /\ tx' = [tx EXCEPT ![p] = NoWrite]
    /\ pc' = [pc EXCEPT ![p] = "idle"]
    /\ call' = [call EXCEPT ![p].id = 0]
    /\ UNCHANGED <<bld, ver, fsm, afsm, nextId>>

\* InsertTx/UpdateTx returned an error: return it; the deferred Rollback runs.
\* The error return without the deferred tx.Rollback().
ReturnErrKeepsOpen(p) ==
    /\ pc[p] = "txdone"
    /\ call[p].err # Nil
    /\ pc' = [pc EXCEPT ![p] = "idle"]
    /\ call' = [call EXCEPT ![p].id = 0]
    /\ UNCHANGED <<bld, ver, fsm, afsm, rows, nextId, hist, tx, evlog>>

ReturnErr(p) ==
    /\ pc[p] = "txdone"
    /\ call[p].err # Nil
    /\ Discard(p)
    /\ pc' = [pc EXCEPT ![p] = "idle"]
    /\ call' = [call EXCEPT ![p].id = 0]
    /\ UNCHANGED <<bld, ver, fsm, afsm, rows, nextId, hist>>

\* tx.Commit() succeeded: the staged row write and events become visible.
Apply(p) ==
    /\ rows' = IF tx[p] # NoWrite THEN [rows EXCEPT ![tx[p].id] = tx[p].st] ELSE rows
    /\ hist' = IF tx[p] # NoWrite THEN [hist EXCEPT ![tx[p].id] = Append(@, tx[p].st)] ELSE hist
    /\ evlog' = [k \in 1 .. Len(evlog) |->
                    IF evlog[k].tx = p THEN [evlog[k] EXCEPT !.tx = "c"] ELSE evlog[k]]
    /\ tx' = [tx EXCEPT ![p] = NoWrite]

\* call after p's Commit succeeded: p has passed "commit", and the open calls
\* of the others on the same row have seen its commit.
Committing(p) ==
    [q \in Procs |->
        IF q = p THEN [call[p] EXCEPT !.steps = Append(@, "commit")]
        ELSE IF Open(q) /\ call[q].op = "Update" /\ call[q].req.ID = tx[p].id
             THEN [call[q] EXCEPT !.seen = @ \cup {p}]
             ELSE call[q]]

\* Commit with the notifier deferred before the commit, so that it runs
\* whatever tx.Commit() returns.
CommitDeferNotify(p) ==
    /\ pc[p] = "txdone"
    /\ call[p].err = Nil
    /\ \E ok \in BOOLEAN :
        IF ok
        THEN /\ rows' = IF tx[p] # NoWrite THEN [rows EXCEPT ![tx[p].id] = tx[p].st] ELSE rows
             /\ hist' = IF tx[p] # NoWrite
                        THEN [hist EXCEPT ![tx[p].id] = Append(@, tx[p].st)] ELSE hist
             /\ evlog' = [k \in 1 .. Len(evlog) |->
                             IF evlog[k].tx = p THEN [evlog[k] EXCEPT !.tx = "c"] ELSE evlog[k]]
             /\ tx' = [tx EXCEPT ![p] = NoWrite]
             /\ call' = Committing(p)
        ELSE /\ tx' = [tx EXCEPT ![p] = NoWrite]
             /\ evlog' = SelectSeq(evlog, LAMBDA e : e.tx # p)
             /\ call' = [call EXCEPT ![p].steps = Append(@, "commit"),
                                     ![p].err = errCommit, ![p].id = 0]
             /\ UNCHANGED <<rows, hist>>
    /\ pc' = [pc EXCEPT ![p] = "committed"]
    /\ UNCHANGED <<bld, ver, fsm, afsm, nextId>>

\* err = tx.Commit() in Insert/Update; on an error the call returns it and the
\* transaction is gone.
Commit(p) ==
    /\ pc[p] = "txdone"
    /\ call[p].err = Nil
    /\ \E ok \in BOOLEAN :
        IF ok
        THEN /\ Apply(p)
             /\ pc' = [pc EXCEPT ![p] = "committed"]
             /\ call' = Committing(p)
        ELSE /\ Discard(p)
             /\ pc' = [pc EXCEPT ![p] = "idle"]
             /\ call' = [call EXCEPT ![p].steps = Append(@, "commit"),
                                     ![p].err = errCommit, ![p].id = 0]
             /\ UNCHANGED <<rows, hist>>
    /\ UNCHANGED <<bld, ver, fsm, afsm, nextId>>

\* The notifier invoked twice before the return.
NotifyTwice(p) ==
    /\ pc[p] = "committed"
    /\ pc' = [pc EXCEPT ![p] = "idle"]
    /\ call' = [call EXCEPT ![p].steps = @ \o <<"notify", "notify">>]
    /\ UNCHANGED <<bld, ver, fsm, afsm, rows, nextId, evlog, tx, hist>>

\* notify(); return id, nil
Notify(p) ==
    /\ pc[p] = "committed"
    /\ pc' = [pc EXCEPT ![p] = "idle"]
    /\ call' = [call EXCEPT ![p].steps = Append(@, "notify")]
    /\ UNCHANGED <<bld, ver, fsm, afsm, rows, nextId, evlog, tx, hist>>

\* ArcFSM.Insert up to and including dbc.Begin().
ArcInsert(p) ==
    \E st \in StatusArgs, ty \in ArcInserterTypes :
        /\ nextId <= MaxRows
        /\ StartCall(p, [NoCall EXCEPT !.op = "Insert", !.to = st, !.req = Req(ty, 0)], MaxEvents)

\* ArcFSM.Update up to and including dbc.Begin().
ArcUpdate(p) ==
    \E from \in StatusArgs, to \in StatusArgs, ty \in ArcUpdaterTypes, id \in RowIds :
        StartCall(p, [NoCall EXCEPT !.op = "Update", !.from = from, !.to = to,
                                    !.req = Req(ty, id), !.pre = rows[id]], MaxEvents)

\* fsm.InsertTx(ctx, tx, st, inserter) inside ArcFSM.Insert.
DoArcInsertTx(p) ==
    /\ pc[p] = "begun"
    /\ call[p].op = "Insert"
    /\ \E fault \in Faults :
        LET r == ArcInsertTx(afsm, call[p].to, call[p].req, nextId, fault)
        IN  /\ Stage(p, r, fault)
            /\ nextId' = IF r.row # NoWrite THEN nextId + 1 ELSE nextId
    /\ UNCHANGED <<bld, ver, fsm, afsm, rows, hist>>

\* fsm.UpdateTx(ctx, tx, from, to, updater) inside ArcFSM.Update.
DoArcUpdateTx(p) ==
    /\ pc[p] = "begun"
    /\ call[p].op = "Update"
    /\ \E fault \in Faults \cup RowChoices(call[p].from, call[p].to) :
        LET c == call[p]
            r == ArcUpdateTx(afsm, c.from, c.to, c.req, rows[c.req.ID], fault)
        IN  /\ ("mutate" \in {r.steps[k] : k \in 1 .. Len(r.steps)} /\ fault # "exec")
                    => ~Locked(p, c.req.ID)
            /\ Stage(p, r, fault)
    /\ UNCHANGED <<bld, ver, fsm, afsm, rows, nextId, hist>>

\* return id, tx.Commit() in ArcFSM.Insert and return tx.Commit() in
\* ArcFSM.Update: the result is fixed here, the deferred calls run next.
ArcCommit(p) ==
    /\ pc[p] = "txdone"
    /\ call[p].err = Nil
    /\ \E ok \in BOOLEAN :
        IF ok
        THEN /\ Apply(p)
             /\ call' = Committing(p)
        ELSE /\ Discard(p)
             /\ call' = [call EXCEPT ![p].steps = Append(@, "commit"), ![p].err = errCommit]
             /\ UNCHANGED <<rows, hist>>
    /\ pc' = [pc EXCEPT ![p] = "deferred"]
    /\ UNCHANGED <<bld, ver, fsm, afsm, nextId>>

\* The deferred calls of ArcFSM.Insert/Update, last registered first:
\* notify(), then tx.Rollback() (a no-op once Commit was called).
ArcDeferred(p) ==
    /\ pc[p] = "deferred"
    /\ pc' = [pc EXCEPT ![p] = "idle"]
    /\ call' = [call EXCEPT ![p].steps = Append(@, "notify")]
    /\ UNCHANGED <<bld, ver, fsm, afsm, rows, nextId, evlog, tx, hist>>

\* -------------------------------------------------------------------------
\* InsertTx and UpdateTx next to other callers, one step per read of
\* fsm.states and per statement sent to the database. GetMetadata and
\* Validate of the requests touch neither; they are taken with the event
\* insert they surround.
\* -------------------------------------------------------------------------
\* InsertTx/UpdateTx of p returns err from a check, before the row statement.
Refuse(p, err) ==
    /\ call' = [call EXCEPT ![p].err = err, ![p].steps = <<>>, ![p].id = 0,
                            ![p].notify = FALSE, ![p].fault = "none"]
    /\ pc' = [pc EXCEPT ![p] = "txdone"]
    /\ UNCHANGED <<tx, evlog>>

\* The failures the environment may choose after the row statement.
TailFaults(opts) ==
    {"none", "events"} \cup (IF opts.withMetadata THEN {"meta"} ELSE {})
                       \cup (IF opts.withValidation THEN {"validate"} ELSE {})

\* InsertTx: st := fsm.insertStatus; sameType(fsm.states[st].req, inserter).
InsertTxType(p) ==
    /\ pc[p] = "begun"
    /\ call[p].op = "Insert"
    /\ IF ~sameType(Lookup(fsm.states, ShiftStatus(fsm.insertStatus)).req, call[p].req)
       THEN Refuse(p, ErrInvalidType)
       ELSE /\ pc' = [pc EXCEPT ![p] = "typed"]
            /\ UNCHANGED <<call, tx, evlog>>
    /\ UNCHANGED <<bld, ver, fsm, afsm, rows, nextId, hist>>

\* InsertTx: the argument fsm.states[st].t of the call of insertTx, the zero
\* value when the map has no entry.
InsertTxEventType(p) ==
    /\ pc[p] = "typed"
    /\ call[p].op = "Insert"
    /\ call' = [call EXCEPT ![p].typ = Lookup(fsm.states, ShiftStatus(fsm.insertStatus)).t]
    /\ pc' = [pc EXCEPT ![p] = "checked"]
    /\ UNCHANGED <<bld, ver, fsm, afsm, rows, nextId, evlog, tx, hist>>

\* insertTx: id, err := inserter.Insert(ctx, tx, st).
InsertTxRow(p) ==
    /\ pc[p] = "checked"
    /\ call[p].op = "Insert"
    /\ \E fault \in {"none", "exec"} :
        LET ins == InserterInsert(call[p].req, fsm.insertStatus, nextId, fault)
        IN  IF ins.err # Nil
            THEN /\ Stage(p, Res(0, FALSE, ins.err, <<"mutate">>, NoWrite, <<>>), fault)
                 /\ nextId' = nextId
            ELSE /\ tx' = [tx EXCEPT ![p] = ins.row]
                 /\ nextId' = nextId + 1
                 /\ call' = [call EXCEPT ![p].steps = <<"mutate">>]
                 /\ pc' = [pc EXCEPT ![p] = "mutated"]
                 /\ evlog' = evlog
    /\ UNCHANGED <<bld, ver, fsm, afsm, rows, hist>>

\* The event sink is called with a nil event type (the zero value read from
\* the map): it reads the tag of its argument and the call panics, which
\* ends the process with every open transaction rolled back; or it returns
\* an error.
NilEventType(p, r) ==
    \/ /\ tx' = [q \in Procs |-> NoWrite]
       /\ evlog' = Committed(evlog)
       /\ call' = [call EXCEPT ![p].steps = r.steps, ![p].fault = "none"]
       /\ pc' = [q \in Procs |-> "panic"]
       /\ ver' = IF ver.pc = "none" THEN ver ELSE [ver EXCEPT !.pc = "fatal"]
    \/ /\ Stage(p, Res(0, FALSE, errEvents, r.steps, tx[p], <<>>), "events")
       /\ ver' = ver

\* insertTx after the row insert: metadata, event insert, validation.
InsertTxEvent(p) ==
    /\ pc[p] = "mutated"
    /\ call[p].op = "Insert"
    /\ \E fault \in TailFaults(fsm.opts) :
        LET c == call[p]
            r == TxTail(tx[p].id, fsm.opts, HasMetadata(c.req),
                        InserterGetMetadata(c.req, tx[p].id, fsm.insertStatus),
                        HasValidate(c.req), c.typ, tx[p], fault)
        IN  IF c.typ = NoStatus /\ r.ev # <<>>
            THEN NilEventType(p, r)
            ELSE Stage(p, r, fault) /\ ver' = ver
    /\ UNCHANGED <<bld, fsm, afsm, rows, nextId, hist>>

\* UpdateTx: t, ok := fsm.states[to.ShiftStatus()]; sameType(t.req, updater).
UpdateTxTo(p) ==
    /\ pc[p] = "begun"
    /\ call[p].op = "Update"
    /\ LET c == call[p]
       IN  IF ShiftStatus(c.to) \notin DOMAIN fsm.states
           THEN Refuse(p, ErrUnknownStatus)
           ELSE IF ~sameType(fsm.states[ShiftStatus(c.to)].req, c.req)
           THEN Refuse(p, ErrInvalidType)
           ELSE /\ call' = [call EXCEPT ![p].typ = fsm.states[ShiftStatus(c.to)].t]
                /\ pc' = [pc EXCEPT ![p] = "typed"]
                /\ UNCHANGED <<tx, evlog>>
    /\ UNCHANGED <<bld, ver, fsm, afsm, rows, nextId, hist>>

\* UpdateTx: f, ok := fsm.states[from.ShiftStatus()]; f.next[to].
UpdateTxFrom(p) ==
    /\ pc[p] = "typed"
    /\ call[p].op = "Update"
    /\ LET c == call[p]
       IN  IF ShiftStatus(c.from) \notin DOMAIN fsm.states
           THEN Refuse(p, ErrUnknownStatus)
           ELSE IF c.to \notin fsm.states[ShiftStatus(c.from)].next
           THEN Refuse(p, ErrInvalidStateTransition)
           ELSE /\ pc' = [pc EXCEPT ![p] = "checked"]
                /\ UNCHANGED <<call, tx, evlog>>
    /\ UNCHANGED <<bld, ver, fsm, afsm, rows, nextId, hist>>

\* updateTx: id, err := updater.Update(ctx, tx, from, to). The UPDATE
\* statement waits for the row lock and reads the latest committed row.
UpdateTxRow(p) ==
    /\ pc[p] = "checked"
    /\ call[p].op = "Update"
    /\ \E fault \in {"none", "exec"} \cup RowChoices(call[p].from, call[p].to) :
        LET c == call[p]
            upd == UpdaterUpdate(c.req, c.from, c.to, rows[c.req.ID], fault)
        IN  /\ fault # "exec" => ~Locked(p, c.req.ID)
            /\ IF upd.err # Nil
               THEN Stage(p, Res(0, FALSE, upd.err, <<"mutate">>, NoWrite, <<>>), fault)
               ELSE /\ tx' = [tx EXCEPT ![p] = upd.row]
                    /\ call' = [call EXCEPT ![p].steps = <<"mutate">>]
                    /\ pc' = [pc EXCEPT ![p] = "mutated"]
                    /\ evlog' = evlog
    /\ UNCHANGED <<bld, ver, fsm, afsm, rows, nextId, hist>>

\* updateTx after the row update: metadata, event insert, validation.
UpdateTxEvent(p) ==
    /\ pc[p] = "mutated"
    /\ call[p].op = "Update"
    /\ \E fault \in TailFaults(fsm.opts) :
        LET c == call[p]
        IN  Stage(p, TxTail(tx[p].id, fsm.opts, HasMetadata(c.req),
                            UpdaterGetMetadata(c.req, c.from, c.to),
                            HasValidate(c.req), c.typ, tx[p], fault), fault)
    /\ UNCHANGED <<bld, ver, fsm, afsm, rows, nextId, hist>>

\* One call of InsertTx or UpdateTx, step by step.
TxSteps(p) ==
    \/ InsertTxType(p)
    \/ InsertTxEventType(p)
    \/ InsertTxRow(p)
    \/ InsertTxEvent(p)
    \/ UpdateTxTo(p)
    \/ UpdateTxFrom(p)
    \/ UpdateTxRow(p)
    \/ UpdateTxEvent(p)

\* One caller at a time, every argument and every failure.
Next ==
    \/ Insert("p1")
    \/ Update("p1")
    \/ BeginFails("p1")
    \/ DoInsertTx("p1")
    \/ DoUpdateTx("p1")
    \/ ReturnErr("p1")
    \/ Commit("p1")
    \/ Notify("p1")

Spec == Init /\ [][Next]_vars

\* Concurrent callers.
RaceGraphs == {BasicGraph, LoopGraph, CycleGraph}

InitRace ==
    /\ fsm \in RaceGraphs
    /\ Setup

NextRace ==
    \E p \in {"p1", "p2"} :
        \/ RaceInsert(p)
        \/ RaceUpdate(p)
        \/ TxSteps(p)
        \/ ReturnErr(p)
        \/ Commit(p)
        \/ Notify(p)

SpecRace == InitRace /\ [][NextRace]_vars

\* The race for one row: p1 inserts it and the callers update it. There are
\* three callers on the graph with a cycle, where a third call can bring the
\* row back to the status two others start from, and two on the other graphs.
Callers(g) == IF g = CycleGraph THEN Procs ELSE {"p1", "p2"}

InitRace3 ==
    /\ fsm \in {CycleGraph, LoopGraph, MixedGraph}
    /\ Setup

NextRace3 ==
    \/ RaceInsert("p1")
    \/ \E p \in Callers(fsm) :
        \/ RaceUpdate(p)
        \/ TxSteps(p)
        \/ ReturnErr(p)
        \/ Commit(p)
        \/ Notify(p)

SpecRace3 == InitRace3 /\ [][NextRace3]_vars

\* The ArcFSM, one caller at a time.
InitArc ==
    /\ fsm = BasicGraph
    /\ Setup

NextArc ==
    \/ ArcInsert("p1")
    \/ ArcUpdate("p1")
    \/ BeginFails("p1")
    \/ DoArcInsertTx("p1")
    \/ DoArcUpdateTx("p1")
    \/ ReturnErr("p1")
    \/ ArcCommit("p1")
    \/ ArcDeferred("p1")

SpecArc == InitArc /\ [][NextArc]_vars

\* One caller on the graph whose insert request is also an updater.
InitBoth ==
    /\ fsm = BothGraph
    /\ Setup

\* GenFSM.Insert up to and including dbc.Begin().
InsertBoth(p) ==
    \E ty \in {"both", "insert"} :
        /\ nextId <= MaxRows
        /\ StartCall(p, [NoCall EXCEPT !.op = "Insert", !.req = Req(ty, 0)], MaxEvents)

\* GenFSM.Update up to and including dbc.Begin().
UpdateBoth(p) ==
    \E from \in StatusArgs, to \in StatusArgs, ty \in {"both", "update"}, id \in RowIds :
        StartCall(p, [NoCall EXCEPT !.op = "Update", !.from = from, !.to = to,
                                    !.req = Req(ty, id), !.pre = rows[id]], MaxEvents)

NextBoth ==
    \/ InsertBoth("p1")
    \/ UpdateBoth("p1")
    \/ DoInsertTx("p1")
    \/ DoUpdateTx("p1")
    \/ ReturnErr("p1")
    \/ Commit("p1")
    \/ Notify("p1")

SpecBoth == InitBoth /\ [][NextBoth]_vars

\* One caller on the graphs with requests that lack capabilities.
InitCap ==
    /\ \E m \in BOOLEAN, v \in BOOLEAN, ty \in {"i", "i_t"} :
        /\ fsm = CapGraph(options(m, v), ty)
        /\ afsm = TestArcGraph
    /\ rows = [r \in RowIds |-> NoRow]
    /\ nextId = 1
    /\ evlog = <<>>
    /\ tx = [p \in Procs |-> NoWrite]
    /\ pc = [p \in Procs |-> "idle"]
    /\ call = [p \in Procs |-> NoCall]
    /\ hist = [r \in RowIds |-> <<>>]
    /\ bld = NoBuild
    /\ ver = NoRun

SpecCap == InitCap /\ [][Next]_vars

\* One caller on the graph with late and missing declarations, the status
\* arguments of Update being of two Go types.
InitLate ==
    /\ fsm = LateGraph(options(FALSE, FALSE))
    /\ afsm = TestArcGraph
    /\ rows = [r \in RowIds |-> NoRow]
    /\ nextId = 1
    /\ evlog = <<>>
    /\ tx = [p \in Procs |-> NoWrite]
    /\ pc = [p \in Procs |-> "idle"]
    /\ call = [p \in Procs |-> NoCall]
    /\ hist = [r \in RowIds |-> <<>>]
    /\ bld = NoBuild
    /\ ver = NoRun

\* GenFSM.Update up to and including dbc.Begin().
UpdateLate(p) ==
    \E from \in LateArgs, to \in LateArgs, ty \in UpdaterTypes, id \in RowIds :
        StartCall(p, [NoCall EXCEPT !.op = "Update", !.from = from, !.to = to,
                                    !.req = Req(ty, id), !.pre = rows[id]], MaxEvents)

NextLate ==
    \/ Insert("p1")
    \/ UpdateLate("p1")
    \/ BeginFails("p1")
    \/ DoInsertTx("p1")
    \/ DoUpdateTx("p1")
    \/ ReturnErr("p1")
    \/ Commit("p1")
    \/ Notify("p1")

SpecLate == InitLate /\ [][NextLate]_vars

\* -------------------------------------------------------------------------
\* sameType on Go values: a value has a dynamic type, that type has an
\* underlying type, and the value has contents. The types are those of the
\* test of sameType: int, x (struct{i int}), y (struct{s string}) and
\* yy (defined as y).
\* -------------------------------------------------------------------------
MaxVal == 2

GoTypes == {"int", "x", "y", "yy"}

Underlying(ty) ==
    CASE ty = "int" -> "int"
      [] ty = "x" -> "struct{i int}"
      [] ty \in {"y", "yy"} -> "struct{s string}"

GoValue(ty, val) == [ty |-> ty, under |-> Underlying(ty), val |-> val]

GoValues == {GoValue(ty, val) : ty \in GoTypes, val \in 0 .. MaxVal}

InitType ==
    /\ fsm = BasicGraph
    /\ afsm = TestArcGraph
    /\ rows = [r \in RowIds |-> NoRow]
    /\ nextId = 1
    /\ evlog = <<>>
    /\ tx = [p \in Procs |-> NoWrite]
    /\ pc = [p \in Procs |-> "idle"]
    /\ call = [p \in Procs |-> NoCall]
    /\ hist = [r \in RowIds |-> <<>>]
    /\ bld = NoBuild
    /\ \E a \in GoValues, b \in GoValues :
          ver = [pc |-> "type", a |-> a, b |-> b, res |-> FALSE]

\* sameType(test.a, test.b)
ApplySameType ==
    /\ ver.pc = "type"
    /\ ver' = [ver EXCEPT !.pc = "typed", !.res = sameType(ver.a, ver.b)]
    /\ UNCHANGED <<bld, fsm, afsm, rows, nextId, evlog, tx, pc, call, hist>>

SpecType == InitType /\ [][ApplySameType]_vars

\* -------------------------------------------------------------------------
\* A program using the builder. NewGenFSM makes one states map; initer,
\* builder and GenFSM are the same struct, and every method has a value
\* receiver: each call works on a copy of the struct whose states field is
\* that one map, so a write through any copy is seen through all of them,
\* while insertStatus belongs to the copy.
\* -------------------------------------------------------------------------
MaxBuildCalls == 4

BuildInsertStatuses == {StatusInit, StatusUpdate}

BuildStatuses == {StatusInit, StatusUpdate, StatusComplete}

BuildNexts == {{StatusUpdate}, {StatusInit, StatusComplete}}

\* The inserter passed to initer.Insert, and the updater passed to
\* builder.Update for a status, as in the package's fsm.
BuildInserter == Req("insert", 0)

BuildUpdater(st) ==
    IF st = StatusComplete THEN Req("complete", 0) ELSE Req("update", 0)

\* The struct held by a value whose insertStatus is ins.
Value(ins) ==
    [states |-> bld.states, insertStatus |-> ins, opts |-> options(FALSE, FALSE),
     panic |-> FALSE]

NoBuildCall == [op |-> "none", st |-> NoStatus, declared |-> FALSE, before |-> <<>>]

\* After in := NewFSM(events): the program holds the initer.
InitBuild ==
    /\ fsm = BasicGraph
    /\ afsm = TestArcGraph
    /\ rows = [r \in RowIds |-> NoRow]
    /\ nextId = 1
    /\ evlog = <<>>
    /\ tx = [p \in Procs |-> NoWrite]
    /\ pc = [p \in Procs |-> "idle"]
    /\ call = [p \in Procs |-> NoCall]
    /\ hist = [r \in RowIds |-> <<>>]
    /\ bld = [states |-> NewGenFSM(options(FALSE, FALSE)).states,
              builders |-> {}, fsms |-> {}, inserts |-> 0, calls |-> 0,
              panicked |-> FALSE, last |-> NoBuildCall]
    /\ ver = NoRun

\* b := in.Insert(st, inserter, next...) on the initer the program holds.
BInsert ==
    /\ ~bld.panicked
    /\ bld.calls < MaxBuildCalls
    /\ \E st \in BuildInsertStatuses, next \in BuildNexts :
        LET r == initerInsert(Value(NoStatus), st, BuildInserter, next)
        IN  bld' = [bld EXCEPT !.states = r.states,
                               !.builders = @ \cup {r.insertStatus},
                               !.inserts = @ + 1,
                               !.calls = @ + 1,
                               !.last = [op |-> "Insert", st |-> st,
                                         declared |-> ShiftStatus(st) \in DOMAIN bld.states,
                                         before |-> bld.states]]
    /\ UNCHANGED <<ver, fsm, afsm, rows, nextId, evlog, tx, pc, call, hist>>

\* b.Update(st, updater, next...) on a builder the program holds; a panic ends
\* the program.
BUpdate ==
    /\ ~bld.panicked
    /\ bld.calls < MaxBuildCalls
    /\ \E b \in bld.builders, st \in BuildStatuses, next \in BuildNexts :
        LET r == builderUpdate(Value(b), st, BuildUpdater(st), next)
        IN  bld' = [bld EXCEPT !.states = r.states,
                               !.panicked = r.panic,
                               !.calls = @ + 1,
                               !.last = [op |-> "Update", st |-> st,
                                         declared |-> ShiftStatus(st) \in DOMAIN bld.states,
                                         before |-> bld.states]]
    /\ UNCHANGED <<ver, fsm, afsm, rows, nextId, evlog, tx, pc, call, hist>>

\* f := b.Build() on a builder the program holds; snap and inserts record the
\* states map and the number of Insert calls at that moment.
BBuild ==
    /\ ~bld.panicked
    /\ bld.calls < MaxBuildCalls
    /\ \E b \in bld.builders :
        LET r == Build(Value(b))
        IN  bld' = [bld EXCEPT !.fsms = @ \cup {[insertStatus |-> r.insertStatus,
                                                snap |-> r.states,
                                                inserts |-> bld.inserts]},
                               !.calls = @ + 1,
                               !.last = [op |-> "Build", st |-> r.insertStatus,
                                         declared |-> TRUE, before |-> bld.states]]
    /\ UNCHANGED <<ver, fsm, afsm, rows, nextId, evlog, tx, pc, call, hist>>

NextBuild == BInsert \/ BUpdate \/ BBuild

SpecBuild == InitBuild /\ [][NextBuild]_vars

\* -------------------------------------------------------------------------
\* The verifier: TestFSM drives a fresh row along every path buildPaths
\* finds, and then requires every declared status to have been entered.
\* -------------------------------------------------------------------------
errNotInserter == "req not of type Inserter"
errNotUpdater == "req not of tupe Updater"
errNoInsertStatus == "fsm without insert status not supported"
errNotReachable == "status not reachable"

\* The states map without the entry of k: delete(states, k).
Delete(states, k) == [x \in (DOMAIN states) \ {k} |-> states[x]]

\* buildPaths reporting a path only at a status without next statuses.
RECURSIVE buildPathsNoBreaks(_, _)
buildPathsNoBreaks(states, from) ==
    LET here == Lookup(states, ShiftStatus(from))
        rest == Delete(states, ShiftStatus(from))
        live == {n \in here.next : ShiftStatus(n) \in DOMAIN rest}
        hasEnd == here.next = {}
    IN  UNION {{<<here>> \o path : path \in buildPathsNoBreaks(rest, n)} : n \in live}
            \cup (IF hasEnd THEN {<<here>>} ELSE {})

\* buildPaths works on the states map of the fsm itself: it deletes the
\* entry of `from`, recurses with the same map, and puts the entry back
\* before it returns. The map is threaded through the calls, next to the
\* result; the result is a slice in map iteration order: a set here, taken
\* in any order.
RECURSIVE buildPathsRun(_, _)
RECURSIVE buildPathsLoop(_, _, _)

\* The loop that also reports the path <<here, here>> at a self-loop.
buildPathsLoopSelf(here, todo, acc) ==
    IF todo = {} THEN acc
    ELSE LET next == CHOOSE n \in todo : TRUE
         IN  IF ShiftStatus(next) \notin DOMAIN acc.states
             THEN buildPathsLoop(here, todo \ {next},
                    [acc EXCEPT !.hasEnd = TRUE,
                                !.res = IF ShiftStatus(next) = ShiftStatus(here.st)
                                        THEN @ \cup {<<here, here>>} ELSE @])
             ELSE LET sub == buildPathsRun(acc.states, next)
                  IN  buildPathsLoop(here, todo \ {next},
                        [acc EXCEPT !.res = @ \cup {<<here>> \o path : path \in sub.res},
                                    !.states = sub.states])

\* for next := range here.next { ... }: todo are the next statuses not yet
\* visited, acc the values of res, hasEnd and the states map so far.
buildPathsLoop(here, todo, acc) ==
    IF todo = {} THEN acc
    ELSE LET next == CHOOSE n \in todo : TRUE
         IN  IF ShiftStatus(next) \notin DOMAIN acc.states
             THEN buildPathsLoop(here, todo \ {next}, [acc EXCEPT !.hasEnd = TRUE])
             ELSE LET sub == buildPathsRun(acc.states, next)
                  IN  buildPathsLoop(here, todo \ {next},
                        [acc EXCEPT !.res = @ \cup {<<here>> \o path : path \in sub.res},
                                    !.states = sub.states])

\* buildPaths returning without putting the entry of `from` back.
buildPathsRunNoRestore(states, from) ==
    LET here == Lookup(states, ShiftStatus(from))
        acc == buildPathsLoop(here, here.next,
                              [res |-> {}, hasEnd |-> here.next = {},
                               states |-> Delete(states, ShiftStatus(from))])
    IN  [res |-> acc.res \cup (IF acc.hasEnd THEN {<<here>>} ELSE {}),
         states |-> acc.states]

\* One call of buildPaths: its result and the states map it leaves.
buildPathsRun(states, from) ==
    LET here == Lookup(states, ShiftStatus(from))
        acc == buildPathsLoop(here, here.next,
                              [res |-> {}, hasEnd |-> here.next = {},
                               states |-> Delete(states, ShiftStatus(from))])
    IN  [res |-> acc.res \cup (IF acc.hasEnd THEN {<<here>>} ELSE {}),
         states |-> Put(acc.states, ShiftStatus(from), here)]

\* buildPaths: the paths from `from` through statuses still in the map, each
\* ending where a status has no next or a next that is not in the map (not
\* declared, or already on the path).
buildPaths(states, from) == buildPathsRun(states, from).res

\* randomInsert / randomUpdate: the request must implement the interface; the
\* fields are random but for ID.
randomInsert(req) ==
    IF IsInserter(req) THEN [req |-> Req(req.ty, 0), err |-> Nil]
    ELSE [req |-> req, err |-> errNotInserter]

\* randomUpdate leaving the ID field random.
randomUpdateAnyID(req, id) ==
    IF IsUpdater(req) THEN [req |-> Req(req.ty, 0), err |-> Nil]
    ELSE [req |-> req, err |-> errNotUpdater]

randomUpdate(req, id) ==
    IF IsUpdater(req) THEN [req |-> Req(req.ty, id), err |-> Nil]
    ELSE [req |-> req, err |-> errNotUpdater]

\* The graphs handed to the verifier: StatusInit inserted with any next list;
\* StatusUpdate and StatusComplete each declared or not, with any next list.
\* The requests are those of one table: i{}, u{}, u{} of tests (the types of
\* TestTestFSM) or insert{}, update{}, complete{} of users (the types of
\* TestAboveFSM).
VerStatuses == {StatusInit, StatusUpdate, StatusComplete}

VerGraph(tbl, n1, d2, n2, d3, n3) ==
    LET ins == IF tbl = "tests" THEN Req("i", 0) ELSE Req("insert", 0)
        up2 == IF tbl = "tests" THEN Req("u", 0) ELSE Req("update", 0)
        up3 == IF tbl = "tests" THEN Req("u", 0) ELSE Req("complete", 0)
        g1 == initerInsert(NewGenFSM(options(FALSE, FALSE)), StatusInit, ins, n1)
        g2 == IF d2 THEN builderUpdate(g1, StatusUpdate, up2, n2) ELSE g1
        g3 == IF d3 THEN builderUpdate(g2, StatusComplete, up3, n3) ELSE g2
    IN  Build(g3)

\* The rows TestFSM may insert: one per path, at most five paths over three
\* statuses.
MaxPaths == 5

VerRowIds == 1 .. MaxPaths

NoPath == <<>>

\* The last fsm.Insert / fsm.Update that TestFSM called.
NoOp == [op |-> "none", from |-> NoStatus, to |-> NoStatus, id |-> 0]

\* The failures of a convenience call made by TestFSM.
VerFaults == {"none", "exec"}

\* TestFSM before its first statement; stack are the calls of buildPaths that
\* have not returned.
NewRun ==
    [pc |-> "start", paths |-> {}, path |-> NoPath, k |-> 0, id |-> 0,
     from |-> NoStatus, found |-> {}, err |-> Nil, rowsMade |-> 0,
     edges |-> {}, walked |-> {}, last |-> NoOp, stack |-> <<>>]

InitVer ==
    /\ \E tbl \in {"tests", "users"},
          n1 \in SUBSET VerStatuses, d2 \in BOOLEAN, n2 \in SUBSET VerStatuses,
          d3 \in BOOLEAN, n3 \in SUBSET VerStatuses :
        /\ (~d2 => n2 = {}) /\ (~d3 => n3 = {})
        /\ fsm = VerGraph(tbl, n1, d2, n2, d3, n3)
    /\ afsm = TestArcGraph
    /\ rows = [r \in VerRowIds |-> NoRow]
    /\ nextId = 1
    /\ evlog = <<>>
    /\ tx = [p \in Procs |-> NoWrite]
    /\ pc = [p \in Procs |-> "idle"]
    /\ call = [p \in Procs |-> NoCall]
    /\ hist = [r \in VerRowIds |-> <<>>]
    /\ bld = NoBuild
    /\ ver = NewRun

\* TestFSM up to the loop over the paths.
VStart ==
    /\ ver.pc = "start"
    /\ ver' = IF fsm.insertStatus = NoStatus
              THEN [ver EXCEPT !.pc = "done", !.err = errNoInsertStatus]
              ELSE [ver EXCEPT !.pc = "paths",
                               !.found = {ShiftStatus(fsm.insertStatus)},
                               !.paths = buildPaths(fsm.states, fsm.insertStatus)]
    /\ fsm' = IF fsm.insertStatus = NoStatus
              THEN fsm
              ELSE [fsm EXCEPT !.states = buildPathsRun(fsm.states, fsm.insertStatus).states]
    /\ UNCHANGED <<bld, afsm, rows, nextId, evlog, tx, pc, call, hist>>

\* The tables after a convenience call that returned r, made with no other
\* caller about: on success its row write and its event are committed.
WriteRows(r) == IF r.err = Nil THEN [rows EXCEPT ![r.row.id] = r.row.st] ELSE rows

WriteHist(r) == IF r.err = Nil THEN [hist EXCEPT ![r.row.id] = Append(@, r.row.st)] ELSE hist

WriteEvents(r) ==
    IF r.err = Nil
    THEN evlog \o [k \in 1 .. Len(r.ev) |-> [fid |-> r.ev[k].fid, typ |-> r.ev[k].typ,
                                             meta |-> r.ev[k].meta, tx |-> "c"]]
    ELSE evlog

\* The next path: randomInsert and fsm.Insert of a fresh row, with no other
\* caller on the database.
VInsertF(fault) ==
    /\ ver.pc = "paths"
    /\ \E path \in ver.paths :
        LET ins == randomInsert(path[1].req)
            r == InsertTx(fsm, ins.req, nextId, fault)
        IN  IF ins.err # Nil
            THEN /\ ver' = [ver EXCEPT !.pc = "done", !.err = ins.err]
                 /\ UNCHANGED <<rows, hist, evlog, nextId>>
            ELSE /\ ver' = IF r.err # Nil
                           THEN [ver EXCEPT !.pc = "done", !.err = r.err,
                                            !.last = [NoOp EXCEPT !.op = "Insert"]]
                           ELSE [ver EXCEPT !.pc = "walk", !.paths = @ \ {path},
                                            !.path = path, !.k = 2, !.id = r.id,
                                            !.from = path[1].st, !.rowsMade = @ + 1,
                                            !.last = [NoOp EXCEPT !.op = "Insert",
                                                                  !.id = r.id]]
                 /\ rows' = WriteRows(r)
                 /\ hist' = WriteHist(r)
                 /\ evlog' = WriteEvents(r)
                 /\ nextId' = IF r.row # NoWrite THEN nextId + 1 ELSE nextId
    /\ UNCHANGED <<bld, fsm, afsm, tx, pc, call>>

VInsert == VInsertF("none")

\* The next status of the path: randomUpdate and fsm.Update of the row
\* that the request names, with no other caller on the database.
VUpdateF(fault) ==
    /\ ver.pc = "walk"
    /\ ver.k <= Len(ver.path)
    /\ LET up == ver.path[ver.k]
           upd == randomUpdate(up.req, ver.id)
           cur == IF upd.req.ID \in DOMAIN rows THEN rows[upd.req.ID] ELSE NoRow
           r == UpdateTx(fsm, ver.from, up.st, upd.req, cur, fault)
           op == [op |-> "Update", from |-> ver.from, to |-> up.st, id |-> upd.req.ID]
       IN  IF upd.err # Nil
           THEN /\ ver' = [ver EXCEPT !.pc = "done", !.err = upd.err]
                /\ UNCHANGED <<rows, hist, evlog>>
           ELSE /\ ver' = IF r.err # Nil
                          THEN [ver EXCEPT !.pc = "done", !.err = r.err, !.last = op]
                          ELSE [ver EXCEPT !.k = @ + 1, !.from = up.st,
                                           !.found = @ \cup {ShiftStatus(up.st)},
                                           !.edges = @ \cup {<<ShiftStatus(ver.from),
                                                                ShiftStatus(up.st)>>},
                                           !.last = op]
                /\ rows' = WriteRows(r)
                /\ hist' = WriteHist(r)
                /\ evlog' = WriteEvents(r)
    /\ UNCHANGED <<bld, fsm, afsm, nextId, tx, pc, call>>

VUpdate == VUpdateF("none")

\* The path is done: on to the next one.
VPathDone ==
    /\ ver.pc = "walk"
    /\ ver.k > Len(ver.path)
    /\ ver' = [ver EXCEPT !.pc = "paths", !.path = NoPath, !.k = 0,
                          !.walked = @ \cup {ver.path}]
    /\ UNCHANGED <<bld, fsm, afsm, rows, nextId, evlog, tx, pc, call, hist>>

\* All paths are done: every declared status must have been found.
VCheck ==
    /\ ver.pc = "paths"
    /\ ver.paths = {}
    /\ ver' = [ver EXCEPT !.pc = "done",
                          !.err = IF \E st \in DOMAIN fsm.states : st \notin ver.found
                                  THEN errNotReachable ELSE Nil]
    /\ UNCHANGED <<bld, fsm, afsm, rows, nextId, evlog, tx, pc, call, hist>>

NextVer == VStart \/ VInsert \/ VUpdate \/ VPathDone \/ VCheck

SpecVer == InitVer /\ [][NextVer]_vars

\* TestFSM with convenience calls that may fail.
NextVerFault ==
    \/ VStart
    \/ \E fault \in VerFaults : VInsertF(fault)
    \/ \E fault \in VerFaults : VUpdateF(fault)
    \/ VPathDone
    \/ VCheck

SpecVerFault == InitVer /\ [][NextVerFault]_vars

\* -------------------------------------------------------------------------
\* TestFSM next to a caller of the same fsm on the same database. buildPaths
\* is taken one map operation at a time: the stack holds the calls of
\* buildPaths that have not returned, and fsm.states is the map they delete
\* from and restore. The calls of fsm.Insert and fsm.Update that TestFSM
\* makes are the calls of p2: they go through the same steps, tables and
\* locks as those of the other caller, p1.
\* -------------------------------------------------------------------------
VerRaceEvents == 4

\* The fsm of the case "insert update" of TestTestFSM.
VerRaceGraph == InsertUpdateGraph

\* The declared edges of the built graph.
VerRaceEdges ==
    {e \in StatusArgs \X StatusArgs :
        /\ ShiftStatus(e[1]) \in DOMAIN VerRaceGraph.states
        /\ e[2] \in VerRaceGraph.states[ShiftStatus(e[1])].next}

\* here := states[from.ShiftStatus()]; hasEnd := len(here.next) == 0
Frame(states, from) ==
    LET here == Lookup(states, ShiftStatus(from))
    IN  [here |-> here, from |-> ShiftStatus(from), todo |-> here.next,
         res |-> {}, hasEnd |-> here.next = {}]

InitVerRace ==
    /\ fsm = VerRaceGraph
    /\ afsm = TestArcGraph
    /\ rows = [r \in RowIds |-> NoRow]
    /\ nextId = 1
    /\ evlog = <<>>
    /\ tx = [p \in Procs |-> NoWrite]
    /\ pc = [p \in Procs |-> "idle"]
    /\ call = [p \in Procs |-> NoCall]
    /\ hist = [r \in RowIds |-> <<>>]
    /\ bld = NoBuild
    /\ ver = NewRun

\* TestFSM up to the call of buildPaths, and the entry of that call:
\* here := states[from]; delete(states, from).
VRStart ==
    /\ ver.pc = "start"
    /\ IF fsm.insertStatus = NoStatus
       THEN /\ ver' = [ver EXCEPT !.pc = "done", !.err = errNoInsertStatus]
            /\ fsm' = fsm
       ELSE /\ ver' = [ver EXCEPT !.pc = "enum",
                                  !.found = {ShiftStatus(fsm.insertStatus)},
                                  !.stack = <<Frame(fsm.states, fsm.insertStatus)>>]
            /\ fsm' = [fsm EXCEPT !.states = Delete(@, ShiftStatus(fsm.insertStatus))]
    /\ UNCHANGED <<bld, afsm, rows, nextId, evlog, tx, pc, call, hist>>

\* One turn of the loop over here.next in the innermost call, in map
\* iteration order: a break, or the entry of the recursive call.
BPNext ==
    /\ ver.pc = "enum"
    /\ LET d == Len(ver.stack)
           f == ver.stack[d]
       IN  \E next \in f.todo :
            IF ShiftStatus(next) \notin DOMAIN fsm.states
            THEN /\ ver' = [ver EXCEPT !.stack[d].todo = @ \ {next},
                                       !.stack[d].hasEnd = TRUE]
                 /\ fsm' = fsm
            ELSE /\ ver' = [ver EXCEPT !.stack =
                              Append([@ EXCEPT ![d].todo = @ \ {next}],
                                     Frame(fsm.states, next))]
                 /\ fsm' = [fsm EXCEPT !.states = Delete(@, ShiftStatus(next))]
    /\ UNCHANGED <<bld, afsm, rows, nextId, evlog, tx, pc, call, hist>>

\* The innermost call is through its loop: states[from] = here, the path
\* <<here>> if hasEnd, return; the caller prepends its own node.
BPReturn ==
    /\ ver.pc = "enum"
    /\ LET d == Len(ver.stack)
           f == ver.stack[d]
           res == f.res \cup (IF f.hasEnd THEN {<<f.here>>} ELSE {})
       IN  /\ f.todo = {}
           /\ fsm' = [fsm EXCEPT !.states = Put(@, f.from, f.here)]
           /\ ver' = IF d = 1
                     THEN [ver EXCEPT !.pc = "paths", !.paths = res, !.stack = <<>>]
                     ELSE [ver EXCEPT !.stack =
                             [SubSeq(@, 1, d - 1) EXCEPT ![d - 1].res =
                                 @ \cup {<<ver.stack[d - 1].here>> \o path : path \in res}]]
    /\ UNCHANGED <<bld, afsm, rows, nextId, evlog, tx, pc, call, hist>>

\* The next path: randomInsert, and fsm.Insert up to and including
\* dbc.Begin().
VRInsert ==
    /\ ver.pc = "paths"
    /\ pc["p2"] = "idle"
    /\ \E path \in ver.paths :
        LET ins == randomInsert(path[1].req)
        IN  IF ins.err # Nil
            THEN /\ ver' = [ver EXCEPT !.pc = "done", !.err = ins.err]
                 /\ UNCHANGED <<pc, call>>
            ELSE /\ ver' = [ver EXCEPT !.pc = "insert", !.paths = @ \ {path},
                                       !.path = path]
                 /\ pc' = [pc EXCEPT !["p2"] = "begun"]
                 /\ call' = Begun("p2", [NoCall EXCEPT !.op = "Insert", !.req = ins.req])
    /\ UNCHANGED <<bld, fsm, afsm, rows, nextId, evlog, tx, hist>>

\* fsm.Insert has returned: the error ends TestFSM, the id is the row of this
\* path.
VRInserted ==
    /\ ver.pc = "insert"
    /\ pc["p2"] = "idle"
    /\ ver' = IF call["p2"].err # Nil
              THEN [ver EXCEPT !.pc = "done", !.err = call["p2"].err,
                               !.last = [NoOp EXCEPT !.op = "Insert"]]
              ELSE [ver EXCEPT !.pc = "walk", !.k = 2, !.id = call["p2"].id,
                               !.from = ver.path[1].st, !.rowsMade = @ + 1,
                               !.last = [NoOp EXCEPT !.op = "Insert",
                                                     !.id = call["p2"].id]]
    /\ UNCHANGED <<bld, fsm, afsm, rows, nextId, evlog, tx, pc, call, hist>>

\* The next status of the path: randomUpdate, and fsm.Update up to and
\* including dbc.Begin().
VRUpdate ==
    /\ ver.pc = "walk"
    /\ ver.k <= Len(ver.path)
    /\ pc["p2"] = "idle"
    /\ LET up == ver.path[ver.k]
           upd == randomUpdate(up.req, ver.id)
       IN  IF upd.err # Nil
           THEN /\ ver' = [ver EXCEPT !.pc = "done", !.err = upd.err]
                /\ UNCHANGED <<pc, call>>
           ELSE /\ ver' = [ver EXCEPT !.pc = "update"]
                /\ pc' = [pc EXCEPT !["p2"] = "begun"]
                /\ call' = Begun("p2", [NoCall EXCEPT !.op = "Update", !.from = ver.from,
                                                      !.to = up.st, !.req = upd.req,
                                                      !.pre = rows[upd.req.ID]])
    /\ UNCHANGED <<bld, fsm, afsm, rows, nextId, evlog, tx, hist>>

\* fsm.Update has returned: the error ends TestFSM; from = up.st and
\* found[up.st] otherwise.
VRUpdated ==
    /\ ver.pc = "update"
    /\ pc["p2"] = "idle"
    /\ LET c == call["p2"]
           op == [op |-> "Update", from |-> c.from, to |-> c.to, id |-> c.req.ID]
       IN  ver' = IF c.err # Nil
                  THEN [ver EXCEPT !.pc = "done", !.err = c.err, !.last = op]
                  ELSE [ver EXCEPT !.pc = "walk", !.k = @ + 1, !.from = c.to,
                                   !.found = @ \cup {ShiftStatus(c.to)},
                                   !.edges = @ \cup {<<ShiftStatus(c.from),
                                                        ShiftStatus(c.to)>>},
                                   !.last = op]
    /\ UNCHANGED <<bld, fsm, afsm, rows, nextId, evlog, tx, pc, call, hist>>

\* GenFSM.Update over a declared edge, up to and including dbc.Begin().
UpdateEdge(p) ==
    \E e \in VerRaceEdges, id \in RowIds :
        StartCall(p, [NoCall EXCEPT !.op = "Update", !.from = e[1], !.to = e[2],
                        !.req = Req(VerRaceGraph.states[ShiftStatus(e[2])].req.ty, id),
                        !.pre = rows[id]], VerRaceEvents)

\* The rows TestFSM has yet to insert: one per path.
Reserved ==
    IF ver.pc \in {"start", "enum"}
    THEN Cardinality(buildPaths(VerRaceGraph.states, VerRaceGraph.insertStatus))
    ELSE Cardinality(ver.paths)

\* GenFSM.Insert up to and including dbc.Begin(); the table has room for the
\* rows of TestFSM.
InsertRace(p) ==
    /\ nextId + Cardinality({q \in Procs : Pending(q)}) + Reserved <= MaxRows
    /\ StartCall(p, [NoCall EXCEPT !.op = "Insert",
                        !.req = Req(VerRaceGraph.states[
                                      ShiftStatus(VerRaceGraph.insertStatus)].req.ty, 0)],
                 VerRaceEvents)

\* The caller reads fsm.states while buildPaths is writing to it, without
\* synchronisation: next to reading the map as it is before or after a
\* write, the Go runtime may detect the race and end the process
\* (fatal error: concurrent map read and map write).
Fatal(p) ==
    /\ ver.pc = "enum"
    /\ pc[p] \in {"begun", "typed"}
    /\ ver' = [ver EXCEPT !.pc = "fatal"]
    /\ pc' = [pc EXCEPT ![p] = "fatal"]
    /\ UNCHANGED <<bld, fsm, afsm, rows, nextId, evlog, tx, call, hist>>

NextVerRace ==
    \/ VRStart
    \/ BPNext
    \/ BPReturn
    \/ VRInsert
    \/ VRInserted
    \/ VRUpdate
    \/ VRUpdated
    \/ VPathDone
    \/ VCheck
    \/ InsertRace("p1")
    \/ UpdateEdge("p1")
    \/ Fatal("p1")
    \/ \E p \in Procs :
        \/ TxSteps(p)
        \/ ReturnErr(p)
        \/ Commit(p)
        \/ Notify(p)

SpecVerRace == InitVerRace /\ [][NextVerRace]_vars

\* =========================================================================
\* Properties
\* =========================================================================
StepSet(c) == {c.steps[k] : k \in 1 .. Len(c.steps)}

Pos(seq, x) == CHOOSE k \in 1 .. Len(seq) : seq[k] = x

IsPrefix(a, b) == Len(a) <= Len(b) /\ \A k \in 1 .. Len(a) : a[k] = b[k]

\* The call of p has returned.
Finished(p) == pc[p] = "idle" /\ call[p].op # "none"

\* InsertTx/UpdateTx of the call of p has returned.
AfterTx(p) == call[p].op # "none" /\ ~InTx(p) /\ call[p].err # errBegin

\* The open transaction of p holds a row write or an event.
Staged(p) == tx[p] # NoWrite \/ \E k \in 1 .. Len(evlog) : evlog[k].tx = p

Declared(st) == ShiftStatus(st) \in DOMAIN fsm.states

IsEdge(from, to) == Declared(from) /\ to \in fsm.states[ShiftStatus(from)].next

NextOrdinals(n) == {ShiftStatus(s) : s \in fsm.states[n].next}

\* C1: under any interleaving of Insert and Update calls of concurrent callers,
\* the statuses committed to a row start at the insert status and every
\* consecutive pair of them is a declared edge; the stored status is the last.
C1_Theorem ==
    \A r \in RowIds :
        /\ (hist[r] = <<>>) <=> (rows[r] = NoRow)
        /\ hist[r] # <<>> =>
            /\ hist[r][1] = ShiftStatus(fsm.insertStatus)
            /\ rows[r] = hist[r][Len(hist[r])]
            /\ \A k \in 1 .. (Len(hist[r]) - 1) :
                /\ hist[r][k] \in DOMAIN fsm.states
                /\ hist[r][k + 1] \in NextOrdinals(hist[r][k])

\* C1 witness: a row went Init -> Update -> Complete while a concurrent
\* Update on it lost with ErrRowCount.
C1_Witness ==
    /\ hist[1] = <<1, 2, 3>>
    /\ \E p \in Procs : Finished(p) /\ call[p].err = ErrRowCount /\ call[p].conc # {}

\* C2 as stated: every Update over a pair that is not a declared edge returns
\* ErrInvalidStateTransition and mutates no row and emits no event.
C2_Original ==
    \A p \in Procs :
        (AfterTx(p) /\ call[p].op = "Update" /\ ~IsEdge(call[p].from, call[p].to))
            => /\ call[p].err = ErrInvalidStateTransition
               /\ call[p].steps = <<>>
               /\ ~Staged(p)

\* C2 amended: every Update over a pair that is not a declared edge fails in
\* the graph checks, without row mutation or event emission; the error is
\* ErrInvalidStateTransition when both statuses are declared and the request
\* has the type bound to `to`, and ErrUnknownStatus or ErrInvalidType otherwise.
C2_Theorem ==
    \A p \in Procs :
        (AfterTx(p) /\ call[p].op = "Update" /\ ~IsEdge(call[p].from, call[p].to))
            => /\ call[p].steps = <<>>
               /\ ~Staged(p)
               /\ call[p].id = 0
               /\ IF /\ Declared(call[p].from)
                     /\ Declared(call[p].to)
                     /\ fsm.states[ShiftStatus(call[p].to)].req.ty = call[p].req.ty
                  THEN call[p].err = ErrInvalidStateTransition
                  ELSE call[p].err \in {ErrUnknownStatus, ErrInvalidType}

\* C2 witness: Update(Complete, Update) on a row that is in Complete was
\* refused with ErrInvalidStateTransition.
C2_Witness ==
    \E p \in Procs :
        /\ Finished(p)
        /\ call[p].op = "Update"
        /\ call[p].from = StatusComplete
        /\ call[p].to = StatusUpdate
        /\ rows[call[p].req.ID] = ShiftStatus(StatusComplete)
        /\ call[p].err = ErrInvalidStateTransition

\* Two finished Update calls over declared edges on the same row that named
\* the same `from` and whose transactions overlapped, the row being in `from`
\* when each began.
Racing(p, q) ==
    /\ p # q
    /\ Finished(p) /\ Finished(q)
    /\ call[p].op = "Update" /\ call[q].op = "Update"
    /\ call[p].req.ID = call[q].req.ID
    /\ call[p].from = call[q].from
    /\ IsEdge(call[p].from, call[p].to) /\ IsEdge(call[q].from, call[q].to)
    /\ call[p].pre = ShiftStatus(call[p].from)
    /\ call[q].pre = ShiftStatus(call[q].from)
    /\ (q \in call[p].conc \/ p \in call[q].conc)

\* No call but those of p and q committed on their row while either ran.
NoThird(p, q) == call[p].seen \subseteq {q} /\ call[q].seen \subseteq {p}

\* The call of p met a failure of the database: of a statement (its own row
\* statement or the event insert) or of Commit.
Failed(p) == call[p].fault \in Faults \ {"none"} \/ call[p].err = errCommit

ExactlyOne(p, q) ==
    \/ call[p].err = Nil /\ call[q].err = ErrRowCount
    \/ call[q].err = Nil /\ call[p].err = ErrRowCount

SelfLoop(p) == ShiftStatus(call[p].from) = ShiftStatus(call[p].to)

C3_SelfLoops ==
    \E p, q \in Procs :
        /\ Racing(p, q) /\ NoThird(p, q)
        /\ SelfLoop(p) /\ SelfLoop(q)
        /\ call[p].err = Nil /\ call[q].err = Nil

\* A self-loop and an Update to another status raced and both succeeded.
C3_Mixed ==
    \E p, q \in Procs :
        /\ Racing(p, q) /\ NoThird(p, q)
        /\ SelfLoop(p) /\ ~SelfLoop(q)
        /\ call[p].err = Nil /\ call[q].err = Nil

\* Two racing self-loops both failed with ErrRowCount with the row in `from`.
C3_Unchanged ==
    \E p, q \in Procs :
        /\ Racing(p, q) /\ NoThird(p, q)
        /\ ~Failed(p) /\ ~Failed(q)
        /\ rows[call[p].req.ID] = ShiftStatus(call[p].from)
        /\ call[p].err = ErrRowCount /\ call[q].err = ErrRowCount

\* Two racing Update(Init, Update) calls both succeeded: a third call
\* committed Update(Update, Init) on the row between their commits.
C3_ThirdCall ==
    \E p, q \in Procs :
        /\ Racing(p, q)
        /\ ~SelfLoop(p) /\ ~SelfLoop(q)
        /\ call[p].err = Nil /\ call[q].err = Nil
        /\ ~NoThird(p, q)

\* Of two racing calls that are no self-loops, with no third call on the row,
\* one succeeded and the other returned the error of a failed statement or
\* Commit, not ErrRowCount.
C3_FailedCall ==
    \E p, q \in Procs :
        /\ Racing(p, q) /\ NoThird(p, q)
        /\ ~SelfLoop(p) /\ ~SelfLoop(q)
        /\ call[p].err = Nil
        /\ Failed(q)
        /\ call[q].err \in {errExec, errEvents, errCommit}

\* C4: in GenFSM.Insert and GenFSM.Update the notifier runs only after
\* tx.Commit() has returned nil; a call that returns an error (from Begin, from
\* InsertTx/UpdateTx or from Commit) never runs it.
C4_Theorem ==
    \A p \in Procs :
        /\ "notify" \in StepSet(call[p]) =>
            /\ call[p].err = Nil
            /\ "commit" \in StepSet(call[p])
            /\ Pos(call[p].steps, "commit") < Pos(call[p].steps, "notify")
        /\ pc[p] = "committed" => (call[p].err = Nil /\ ~Staged(p))
        /\ call[p].err # Nil => "notify" \notin StepSet(call[p])

\* C4 witness: a call whose Commit failed has returned without notifying.
C4_Witness ==
    \E p \in Procs :
        /\ Finished(p)
        /\ call[p].err = errCommit
        /\ "commit" \in StepSet(call[p])
        /\ "notify" \notin StepSet(call[p])

\* C5: in ArcFSM.Insert and ArcFSM.Update a failed Commit means the notifier is
\* not invoked, and ArcFSM.Insert returns the zero identifier with the error.
C5_Claim ==
    \A p \in Procs :
        (Finished(p) /\ call[p].err = errCommit)
            => /\ "notify" \notin StepSet(call[p])
               /\ call[p].op = "Insert" => call[p].id = 0

\* A step in which the call of p commits its transaction.
Commits(p) == pc[p] = "txdone" /\ pc'[p] = "committed"

\* A step in which the call of p returns an error.
ReturnsErr(p) == pc[p] # "idle" /\ pc'[p] = "idle" /\ call'[p].err # Nil

\* C6: the committed rows and events change only in the successful Commit of a
\* call, such a call returns nil, and a call that returns an error leaves
\* nothing of its transaction behind, also when the row write and the event
\* were already staged.
C6_Theorem ==
    [][ /\ (rows' # rows \/ hist' # hist \/ Committed(evlog)' # Committed(evlog))
            => \E p \in Procs : Commits(p) /\ call[p].err = Nil
        /\ \A p \in Procs :
            /\ pc[p] = "committed" => (pc'[p] = "committed" \/ call'[p].err = Nil)
            /\ ReturnsErr(p) =>
                /\ rows' = rows
                /\ Committed(evlog)' = Committed(evlog)
                /\ tx'[p] = NoWrite
                /\ \A k \in 1 .. Len(evlog') : evlog'[k].tx # p
      ]_vars

\* C6 witness: an Insert failed in Validate after the row and the event were
\* staged, and the table has no row.
C6_Witness ==
    \E p \in Procs :
        /\ Finished(p)
        /\ call[p].op = "Insert"
        /\ call[p].err = errValidate
        /\ "emit" \in StepSet(call[p])
        /\ \A r \in RowIds : rows[r] = NoRow
        /\ evlog = <<>>

\* The steps of a successful convenience call, in order.
ExpectedSteps(opts) ==
    <<"mutate">> \o (IF opts.withMetadata THEN <<"metadata">> ELSE <<>>)
        \o <<"emit">> \o (IF opts.withValidation THEN <<"validate">> ELSE <<>>)
        \o <<"commit", "notify">>

\* C7: a successful Insert/Update runs row mutation, metadata (if enabled),
\* event emission, validation (if enabled), commit, notification, in this
\* order, each after the one before has returned without error.
C7_Theorem ==
    \A p \in Procs :
        LET exp == ExpectedSteps(fsm.opts)
            n == Len(exp)
        IN  (call[p].op # "none" /\ call[p].err = Nil) =>
                /\ IsPrefix(call[p].steps, exp)
                /\ pc[p] = "txdone" => Len(call[p].steps) = n - 2
                /\ pc[p] = "committed" => Len(call[p].steps) = n - 1
                /\ Finished(p) => call[p].steps = exp

\* C7 witness: a successful Update with metadata and validation enabled.
C7_Witness ==
    \E p \in Procs :
        /\ Finished(p)
        /\ call[p].op = "Update"
        /\ call[p].err = Nil
        /\ fsm.opts.withMetadata /\ fsm.opts.withValidation
        /\ Len(call[p].steps) = 6

\* C8: the committed events of a row are one per committed transition of the
\* row, in order, each with the event type of the status entered, so that the
\* type of the last one is that of the stored status; with the events of all
\* rows they are all the committed events.
C8_Theorem ==
    /\ \A r \in RowIds :
        LET ev == EventsOf(evlog, r)
        IN  /\ Len(ev) = Len(hist[r])
            /\ \A k \in 1 .. Len(ev) :
                /\ hist[r][k] \in DOMAIN fsm.states
                /\ ev[k].typ = ReflexType(fsm.states[hist[r][k]].t)
            /\ hist[r] # <<>> =>
                /\ rows[r] = hist[r][Len(hist[r])]
                /\ ev[Len(ev)].typ = ReflexType(fsm.states[rows[r]].t)
                /\ ev[Len(ev)].typ = rows[r]
            /\ hist[r] = <<>> => rows[r] = NoRow
    /\ \A k \in 1 .. Len(evlog) : evlog[k].tx = "c" => evlog[k].fid \in RowIds

\* C8 witness: a row with three committed transitions and their three events,
\* after a failed call.
C8_Witness ==
    /\ hist[1] = <<1, 2, 3>>
    /\ Len(EventsOf(evlog, 1)) = 3
    /\ EventsOf(evlog, 1)[3].typ = ReflexType(StatusComplete)
    /\ nextId = 3
    /\ rows[2] = NoRow

\* C9: a request whose type is not the type bound to the target status (the
\* insert status for Insert, a declared `to` for Update) gets ErrInvalidType
\* before its row mutation is invoked; nothing is staged.
C9_Theorem ==
    \A p \in Procs :
        AfterTx(p) =>
            LET c == call[p]
                target == IF c.op = "Insert" THEN fsm.insertStatus ELSE c.to
            IN  (Declared(target) /\ fsm.states[ShiftStatus(target)].req.ty # c.req.ty)
                    => /\ c.err = ErrInvalidType
                       /\ c.steps = <<>>
                       /\ c.id = 0
                       /\ ~Staged(p)

\* C9 witness: an Update into Update with the request type of Complete, on a
\* row that is in Init, was refused with ErrInvalidType.
C9_Witness ==
    \E p \in Procs :
        /\ Finished(p)
        /\ call[p].op = "Update"
        /\ call[p].from = StatusInit
        /\ call[p].to = StatusUpdate
        /\ call[p].req.ty = "complete"
        /\ rows[call[p].req.ID] = ShiftStatus(StatusInit)
        /\ call[p].err = ErrInvalidType

\* C10: Update with an undeclared `to` returns ErrUnknownStatus; with a
\* declared `to`, the request type bound to it and an undeclared `from` it
\* returns ErrUnknownStatus; neither mutates a row nor emits an event.
C10_Theorem ==
    \A p \in Procs :
        (AfterTx(p) /\ call[p].op = "Update") =>
            LET c == call[p]
                clean == c.steps = <<>> /\ ~Staged(p)
            IN  /\ ~Declared(c.to) => (c.err = ErrUnknownStatus /\ clean)
                /\ ( /\ Declared(c.to)
                     /\ fsm.states[ShiftStatus(c.to)].req.ty = c.req.ty
                     /\ ~Declared(c.from) ) => (c.err = ErrUnknownStatus /\ clean)

\* C10 witness: Update(unknown, Update, u) returned ErrUnknownStatus.
C10_Witness ==
    \E p \in Procs :
        /\ Finished(p)
        /\ call[p].op = "Update"
        /\ call[p].from = unknownShiftStatus
        /\ call[p].to = StatusUpdate
        /\ call[p].req.ty = "u"
        /\ call[p].err = ErrUnknownStatus

\* An Update call of p over a declared edge with the request type bound to
\* `to`, whose row statement was executed by the database.
EdgeUpdate(p) ==
    /\ AfterTx(p)
    /\ call[p].op = "Update"
    /\ IsEdge(call[p].from, call[p].to)
    /\ fsm.states[ShiftStatus(call[p].to)].req.ty = call[p].req.ty
    /\ call[p].fault # "exec"

\* C11: an Update over a declared edge on a row whose stored status is not
\* `from`, or that does not exist, fails with ErrRowCount right after the row
\* statement; nothing is staged, the row keeps its status and its committed
\* events stay one per committed transition.
C11_Theorem ==
    \A p \in Procs :
        (EdgeUpdate(p) /\ call[p].pre # ShiftStatus(call[p].from)) =>
            /\ call[p].err = ErrRowCount
            /\ call[p].steps = <<"mutate">>
            /\ ~call[p].notify
            /\ ~Staged(p)
            /\ rows[call[p].req.ID] = call[p].pre
            /\ Len(EventsOf(evlog, call[p].req.ID)) = Len(hist[call[p].req.ID])

\* C11 witness: Update(Init, Update) has returned ErrRowCount on a row that is
\* in Complete, its three events untouched.
C11_Witness ==
    \E p \in Procs :
        /\ Finished(p)
        /\ EdgeUpdate(p)
        /\ call[p].from = StatusInit
        /\ call[p].err = ErrRowCount
        /\ call[p].req.ID = 1
        /\ rows[1] = ShiftStatus(StatusComplete)
        /\ Len(EventsOf(evlog, 1)) = 3

\* The bytes GetMetadata returned in the call that made the k-th committed
\* transition of row r: the inserter's for the first, the updater's after it.
MetadataOf(r, k) ==
    LET node == fsm.states[hist[r][k]]
    IN  IF k = 1
        THEN InserterGetMetadata(Req(node.req.ty, 0), r, node.st)
        ELSE UpdaterGetMetadata(Req(node.req.ty, r), fsm.states[hist[r][k - 1]].st, node.st)

\* C12: with metadata enabled the k-th committed event of a row carries
\* exactly the bytes GetMetadata returned in the call of the row's k-th
\* transition, events in emission order; with metadata disabled every event
\* carries none.
C12_Theorem ==
    \A r \in RowIds :
        LET ev == EventsOf(evlog, r)
        IN  /\ Len(ev) = Len(hist[r])
            /\ \A k \in 1 .. Len(ev) :
                /\ ev[k].typ = hist[r][k]
                /\ ev[k].meta = IF fsm.opts.withMetadata THEN MetadataOf(r, k) ELSE <<>>

\* C12 witness: with metadata enabled, the second row was inserted and
\* updated, and its two events carry "2".
C12_Witness ==
    /\ fsm.opts.withMetadata
    /\ hist[2] = <<1, 2>>
    /\ Len(EventsOf(evlog, 2)) = 2
    /\ EventsOf(evlog, 2)[1].meta = <<50>>
    /\ EventsOf(evlog, 2)[2].meta = <<50>>
    /\ Len(EventsOf(evlog, 1)) = 1
    /\ EventsOf(evlog, 1)[1].meta = <<49>>

\* The call of p had the request type bound to its target and its row
\* statement changed a row: the call went on to metadata, event, validation.
PastMutation(p) ==
    /\ AfterTx(p)
    /\ call[p].fault # "exec"
    /\ call[p].steps # <<>>
    /\ call[p].op = "Update" => call[p].pre = ShiftStatus(call[p].from)

LacksMetadata(p) == fsm.opts.withMetadata /\ ~HasMetadata(call[p].req)

LacksValidate(p) == fsm.opts.withValidation /\ ~HasValidate(call[p].req)

\* C13: with metadata (validation) enabled, a request of the bound type that
\* lacks GetMetadata (Validate) gets ErrInvalidType at that step instead of
\* the step being skipped, and the convenience call commits neither the row
\* write nor an event.
C13_Theorem ==
    \A p \in Procs :
        PastMutation(p) =>
            /\ LacksMetadata(p) =>
                /\ call[p].err = ErrInvalidType
                /\ call[p].steps = <<"mutate">>
            /\ (~LacksMetadata(p) /\ LacksValidate(p) /\ call[p].fault \notin {"meta", "events"}) =>
                /\ call[p].err = ErrInvalidType
                /\ call[p].steps[Len(call[p].steps)] = "emit"
            /\ ((LacksMetadata(p) \/ LacksValidate(p)) /\ Finished(p)) =>
                /\ call[p].err # Nil
                /\ call[p].id = 0
                /\ ~Staged(p)
                /\ call[p].op = "Update" => rows[call[p].req.ID] = call[p].pre
                /\ call[p].op = "Insert" => rows[nextId - 1] = NoRow
                /\ \A r \in RowIds : Len(EventsOf(evlog, r)) = Len(hist[r])

\* C13 witness: with validation enabled and metadata disabled, an Update with
\* u_t{} (no Validate) on a row in Init returned ErrInvalidType after the
\* event insert, and the row is still in Init with its one event.
C13_Witness ==
    \E p \in Procs :
        /\ Finished(p)
        /\ PastMutation(p)
        /\ call[p].op = "Update"
        /\ ~LacksMetadata(p) /\ LacksValidate(p)
        /\ call[p].err = ErrInvalidType
        /\ call[p].steps = <<"mutate", "emit">>
        /\ rows[call[p].req.ID] = ShiftStatus(StatusInit)
        /\ Len(EventsOf(evlog, call[p].req.ID)) = 1

\* An Insert with i_t{} (no GetMetadata) was refused with ErrInvalidType
\* after its row insert, and no row is committed.
C13_InsertCase ==
    \E p \in Procs :
        /\ Finished(p)
        /\ PastMutation(p)
        /\ call[p].op = "Insert"
        /\ LacksMetadata(p)
        /\ call[p].err = ErrInvalidType
        /\ nextId = 2
        /\ rows[1] = NoRow

\* C14: an error returned by the request's row statement, GetMetadata or
\* Validate is the error InsertTx/UpdateTx returns and the error the
\* convenience call returns, not an engine error in its place.
C14_Theorem ==
    \A p \in Procs :
        AfterTx(p) =>
            /\ (call[p].steps # <<>> /\ call[p].fault = "exec") => call[p].err = errExec
            /\ ("metadata" \in StepSet(call[p]) /\ call[p].fault = "meta") =>
                    call[p].err = errMetadata
            /\ ("validate" \in StepSet(call[p]) /\ call[p].fault = "validate") =>
                    call[p].err = errValidate
            /\ call[p].err \in {errExec, errMetadata, errValidate} =>
                    /\ ~call[p].notify
                    /\ "commit" \notin StepSet(call[p])

\* C14 witness: an Update on the row in Init has returned the error of its
\* Validate, and the row is still in Init.
C14_Witness ==
    \E p \in Procs :
        /\ Finished(p)
        /\ call[p].op = "Update"
        /\ call[p].err = errValidate
        /\ call[p].steps[Len(call[p].steps)] = "validate"
        /\ nextId = 2
        /\ rows[1] = ShiftStatus(StatusInit)

\* C15: builder.Update for a status already declared, by Insert or by an
\* earlier Update, panics and leaves the states map as it was; no other call
\* panics.
C15_Theorem ==
    /\ (bld.last.op = "Update" /\ bld.last.declared) =>
        /\ bld.panicked
        /\ bld.states = bld.last.before
    /\ bld.panicked => (bld.last.op = "Update" /\ bld.last.declared)

\* C15 witness: Update(StatusComplete) panicked on a map in which an earlier
\* Update had declared StatusComplete and Insert had declared StatusInit.
C15_Witness ==
    /\ bld.panicked
    /\ bld.last.st = StatusComplete
    /\ DOMAIN bld.states = {1, 3}
    /\ bld.inserts = 1

\* C16: no graph comes out of a builder instance on which Insert was called
\* twice: the second Insert fails fatally.
C16_Claim ==
    /\ bld.inserts >= 2 => bld.panicked
    /\ \A f \in bld.fsms : f.inserts <= 1

\* C17: in every graph Build returns exactly one node has insert = TRUE, the
\* node of the graph's insert status.
C17_Claim ==
    \A f \in bld.fsms :
        /\ Cardinality({k \in DOMAIN f.snap : f.snap[k].insert}) = 1
        /\ Lookup(f.snap, ShiftStatus(f.insertStatus)).insert

\* C18: once Build has returned a graph, its nodes and edges stay as they
\* were at Build, whatever is called on the builder values afterwards.
C18_Claim ==
    \A f \in bld.fsms : bld.states = f.snap

\* C19: no Update whose `to` is the insert status succeeds: a row is in the
\* insert status only as its first committed status.
C19_Claim ==
    /\ \A p \in Procs :
        (AfterTx(p) /\ call[p].op = "Update"
                    /\ ShiftStatus(call[p].to) = ShiftStatus(fsm.insertStatus))
            => call[p].err # Nil
    /\ \A r \in RowIds : \A k \in 2 .. Len(hist[r]) :
            hist[r][k] # ShiftStatus(fsm.insertStatus)

\* The statuses reachable from the insert status through declared edges.
RECURSIVE ReachFrom(_)
ReachFrom(S) ==
    LET T == S \cup {ShiftStatus(n) : n \in UNION {fsm.states[k].next : k \in S}}
        U == T \cap DOMAIN fsm.states
    IN  IF U = S THEN S ELSE ReachFrom(U)

Reachable == ReachFrom({ShiftStatus(fsm.insertStatus)})

\* C20: TestFSM returns nil when every declared status is reachable from the
\* insert status through declared edges, cycles back to the insert status and
\* self-loops included, and "status not reachable" exactly when a declared
\* status is not; while it runs, the statuses found are reachable ones.
C20_Theorem ==
    /\ ver.found \subseteq Reachable
    /\ ver.pc = "done" =>
        /\ ver.err \in {Nil, errNotReachable}
        /\ ver.err = Nil <=> DOMAIN fsm.states \subseteq Reachable
        /\ ver.err = Nil => ver.found = DOMAIN fsm.states

\* C20 witness: TestFSM returned nil on Init -> Update -> {Init, Update,
\* Complete}, Complete -> Init: a cycle back to the insert status and a
\* self-loop.
C20_Witness ==
    /\ ver.pc = "done"
    /\ ver.err = Nil
    /\ DOMAIN fsm.states = {1, 2, 3}
    /\ fsm.states[1].next = {StatusUpdate}
    /\ fsm.states[2].next = {StatusInit, StatusUpdate, StatusComplete}
    /\ fsm.states[3].next = {StatusInit}
    /\ ver.rowsMade = 2

\* TestFSM returned "status not reachable" on a graph with an orphan status.
C20_Orphan ==
    /\ ver.pc = "done"
    /\ ver.err = errNotReachable
    /\ DOMAIN fsm.states = {1, 2, 3}
    /\ fsm.states[1].next = {StatusUpdate}
    /\ fsm.states[2].next = {StatusInit}

\* The declared edges of the graph between declared statuses, as ordinals.
DeclaredEdges ==
    {e \in (DOMAIN fsm.states) \X (DOMAIN fsm.states) :
        \E n \in fsm.states[e[1]].next : ShiftStatus(n) = e[2]}

\* C21: a successful run of TestFSM on a graph whose statuses are all
\* reachable has executed Update(from, to) for every declared edge.
C21_Claim ==
    (ver.pc = "done" /\ ver.err = Nil /\ DOMAIN fsm.states \subseteq Reachable)
        => DeclaredEdges \subseteq ver.edges

\* C22: the builder accepts next lists that name a status declared later or
\* never: the graph is built without a panic and holds both edges; an Update
\* along the edge to the status declared later is carried out like any other,
\* and an Update whose `to` was never declared returns ErrUnknownStatus
\* without touching the row or the events table.
C22_Theorem ==
    /\ ~fsm.panic
    /\ fsm.states[1].next = {StatusUpdate, StatusComplete}
    /\ DOMAIN fsm.states = {1, 2}
    /\ \A p \in Procs :
        (AfterTx(p) /\ call[p].op = "Update") =>
            /\ (call[p].from = StatusInit /\ call[p].to = StatusUpdate
                    /\ call[p].req.ty = "u")
                   => /\ call[p].steps # <<>>
                      /\ (call[p].pre = 1 /\ call[p].fault = "none")
                            => call[p].err \in {Nil, errCommit}
            /\ ~Declared(call[p].to)
                   => /\ call[p].err = ErrUnknownStatus
                      /\ call[p].steps = <<>>
                      /\ ~Staged(p)
                      /\ rows[call[p].req.ID] = call[p].pre

\* A row went 1 -> 2 over the edge declared before its target, and the Update
\* of it to the never declared StatusComplete, an edge of the next list of
\* StatusUpdate, returned ErrUnknownStatus.
C22_Witness ==
    /\ hist[1] = <<1, 2>>
    /\ Finished("p1")
    /\ call["p1"].op = "Update"
    /\ call["p1"].from = StatusUpdate
    /\ call["p1"].to = StatusComplete
    /\ call["p1"].req = Req("u", 1)
    /\ call["p1"].err = ErrUnknownStatus
    /\ rows[1] = 2

\* The pairs registered with arcbuilder.Insert and the triples registered
\* with arcbuilder.Update, as (ordinal, request type).
RegisteredInserts ==
    {<<afsm.inserts[k].Status, afsm.inserts[k].Type.ty>> : k \in 1 .. Len(afsm.inserts)}

RegisteredUpdates ==
    UNION {{<<f, afsm.updates[f][k].Status, afsm.updates[f][k].Type.ty>> :
                k \in 1 .. Len(afsm.updates[f])} : f \in DOMAIN afsm.updates}

\* C23: ArcFSM.InsertTx reaches the row mutation exactly for a registered
\* (status, request type) and ArcFSM.UpdateTx exactly for a registered
\* (from, to, request type); every other call returns
\* ErrInvalidStateTransition, with no row written and no event staged.
C23_Theorem ==
    \A p \in Procs :
        AfterTx(p) =>
            LET c == call[p]
                registered ==
                    IF c.op = "Insert"
                    THEN <<ShiftStatus(c.to), c.req.ty>> \in RegisteredInserts
                    ELSE <<ShiftStatus(c.from), ShiftStatus(c.to), c.req.ty>>
                            \in RegisteredUpdates
            IN  IF registered
                THEN c.steps # <<>> /\ c.steps[1] = "mutate"
                     /\ c.err # ErrInvalidStateTransition
                ELSE /\ c.err = ErrInvalidStateTransition
                     /\ c.steps = <<>>
                     /\ ~Staged(p)
                     /\ c.op = "Update" => rows[c.req.ID] = c.pre

\* Row 1 was inserted through a registered pair, and an Update of it along
\* the registered statuses Init -> Update with a request type that is not
\* the registered one returned ErrInvalidStateTransition.
C23_Witness ==
    /\ hist[1] = <<1>>
    /\ Finished("p1")
    /\ call["p1"].op = "Update"
    /\ call["p1"].from = StatusInit
    /\ call["p1"].to = StatusUpdate
    /\ call["p1"].req = Req("update", 1)
    /\ call["p1"].err = ErrInvalidStateTransition
    /\ rows[1] = 1

\* The event types of the committed events of row r, oldest first.
TagsOf(r) == [k \in 1 .. Len(EventsOf(evlog, r)) |-> EventsOf(evlog, r)[k].typ]

\* C24: with Insert(Init, a), Insert(Init, b), Update(Init, Upd, m) and
\* Update(Upd, Init, m) registered, an Insert with either inserter type and an
\* Update along either registered triple of a row that is in `from` succeed
\* unless a step of the transaction fails or the request lacks a method that
\* an enabled option needs, the move back into the initial
\* status included, and the events of a row carry the types of the statuses
\* it entered, in this order.
C24_Theorem ==
    /\ RegisteredInserts = {<<1, "insert">>, <<1, "insert2">>}
    /\ RegisteredUpdates = {<<1, 2, "move">>, <<2, 1, "move">>}
    /\ \A r \in RowIds : TagsOf(r) = [k \in 1 .. Len(hist[r]) |-> ReflexType(St("TestStatus", hist[r][k]))]
    /\ \A p \in Procs :
        (/\ Finished(p) /\ call[p].fault = "none" /\ call[p].err # errCommit
         /\ afsm.opts.withMetadata => HasMetadata(call[p].req)
         /\ afsm.opts.withValidation => HasValidate(call[p].req)) =>
            LET c == call[p]
            IN  /\ (c.op = "Insert" /\ c.req.ty \in {"insert", "insert2"}
                        /\ c.to = StatusInit) => c.err = Nil
                /\ (c.op = "Update" /\ c.req.ty = "move" /\ c.pre = ShiftStatus(c.from)
                        /\ <<c.from, c.to>> \in {<<StatusInit, StatusUpdate>>,
                                                  <<StatusUpdate, StatusInit>>})
                      => c.err = Nil

\* Row 1 was inserted, moved Init -> Update and back to Init, its events being
\* tagged 1, 2, 1; row 2 was then inserted with the second inserter type.
C24_Witness ==
    /\ hist[1] = <<1, 2, 1>>
    /\ TagsOf(1) = <<1, 2, 1>>
    /\ rows[1] = 1
    /\ hist[2] = <<1>>
    /\ Finished("p1")
    /\ call["p1"].op = "Insert"
    /\ call["p1"].req.ty = "insert2"
    /\ call["p1"].err = Nil

\* C25: an Update whose from and to have the ordinals of a declared edge is
\* refused neither by a node lookup nor by the edge-membership check,
\* whatever the Go types of the two status values.
C25_Claim ==
    \A p \in Procs :
        (/\ AfterTx(p)
         /\ call[p].op = "Update"
         /\ <<ShiftStatus(call[p].from), ShiftStatus(call[p].to)>> \in DeclaredEdges)
            => call[p].err \notin {ErrUnknownStatus, ErrInvalidStateTransition}

\* C26: UpdateTx checks, in this order, that `to` is declared, that the
\* request has the type bound to `to`, that `from` is declared and that `to`
\* is in the next set of `from`; it returns the error of the first check
\* that fails without running a step, and reaches the row mutation when
\* none fails.
C26_Theorem ==
    \A p \in Procs :
        (AfterTx(p) /\ call[p].op = "Update") =>
            LET c == call[p]
                refused(e) == c.err = e /\ c.steps = <<>>
            IN  IF ShiftStatus(c.to) \notin DOMAIN fsm.states
                THEN refused(ErrUnknownStatus)
                ELSE IF fsm.states[ShiftStatus(c.to)].req.ty # c.req.ty
                THEN refused(ErrInvalidType)
                ELSE IF ShiftStatus(c.from) \notin DOMAIN fsm.states
                THEN refused(ErrUnknownStatus)
                ELSE IF c.to \notin fsm.states[ShiftStatus(c.from)].next
                THEN refused(ErrInvalidStateTransition)
                ELSE c.steps # <<>> /\ c.steps[1] = "mutate"

\* An Update from an undeclared status to a declared one with a request of
\* another type than the one bound to `to` returned ErrInvalidType.
C26_Witness ==
    /\ Finished("p1")
    /\ call["p1"].op = "Update"
    /\ call["p1"].from = StatusComplete
    /\ call["p1"].to = StatusUpdate
    /\ call["p1"].req.ty = "complete"
    /\ call["p1"].err = ErrInvalidType
    /\ ~Declared(StatusComplete)

\* The paths returned by buildPaths that the verifier still holds: those not
\* yet walked and the one being walked.
HeldPaths == ver.paths \cup (IF ver.path = NoPath THEN {} ELSE {ver.path})

\* The ordinals of the statuses of a path.
OnPath(path) == {ShiftStatus(path[k].st) : k \in 1 .. Len(path)}

\* C27: every path returned by buildPaths starts at the insert status, holds
\* no status twice, and every consecutive pair of its statuses is a declared
\* edge between declared statuses.
C27_Theorem ==
    /\ (ver.pc = "paths" /\ ver.rowsMade = 0)
            => ver.paths = buildPaths(fsm.states, fsm.insertStatus)
    /\ \A path \in HeldPaths :
        /\ Len(path) >= 1
        /\ path[1].st = fsm.insertStatus
        /\ \A j, k \in 1 .. Len(path) :
              j # k => ShiftStatus(path[j].st) # ShiftStatus(path[k].st)
        /\ \A k \in 1 .. Len(path) :
              /\ Declared(path[k].st)
              /\ path[k] = fsm.states[ShiftStatus(path[k].st)]
        /\ \A k \in 1 .. (Len(path) - 1) : IsEdge(path[k].st, path[k + 1].st)

\* buildPaths has returned a path over all three statuses on a graph whose
\* last status leads back to the insert status and to itself.
C27_Witness ==
    /\ ver.pc = "paths"
    /\ ver.rowsMade = 0
    /\ \E path \in ver.paths :
        /\ Len(path) = 3
        /\ StatusInit \in path[3].next
        /\ path[3].st \in path[3].next

\* C28: a path is returned only if its last status has no next status or
\* every declared next status of it lies on the path; a path whose last
\* status has a declared next status outside the path is never returned.
C28_Claim ==
    \A path \in HeldPaths :
        LET last == path[Len(path)]
        IN  \/ last.next = {}
            \/ \A n \in last.next : Declared(n) => ShiftStatus(n) \in OnPath(path)

\* C29: on every graph, with cycles, self-loops and next statuses that are
\* not declared, buildPaths returns, with at least one path and no path
\* longer than the number of declared statuses.
C29_Theorem ==
    LET res == buildPaths(fsm.states, fsm.insertStatus)
    IN  /\ res # {}
        /\ \A path \in res : Len(path) \in 1 .. Cardinality(DOMAIN fsm.states)
        /\ (ver.pc = "paths" /\ ver.rowsMade = 0) => ver.paths # {}

\* buildPaths has returned on a graph with a self-loop, a cycle through the
\* insert status and a next status that is not declared.
C29_Witness ==
    /\ ver.pc = "paths"
    /\ ver.rowsMade = 0
    /\ ver.paths # {}
    /\ DOMAIN fsm.states = {1, 2}
    /\ fsm.states[1].next = {StatusUpdate}
    /\ fsm.states[2].next = {StatusInit, StatusUpdate, StatusComplete}

\* C30: TestFSM leaves the states map of the fsm as it was: no step of it,
\* the call of buildPaths included, changes the fsm.
C30_Theorem == [][fsm' = fsm]_vars

\* TestFSM ran to its end without error on a graph of three statuses with a
\* cycle, having walked more than one path.
C30_Witness ==
    /\ ver.pc = "done"
    /\ ver.err = Nil
    /\ ver.rowsMade >= 2
    /\ DOMAIN fsm.states = {1, 2, 3}
    /\ StatusInit \in fsm.states[3].next

\* The stepwise buildPaths returns what buildPaths returns, on the map as
\* built.
StepwiseAgrees ==
    (ver.pc = "paths" /\ ver.rowsMade = 0)
        => /\ fsm = VerRaceGraph
           /\ ver.paths = buildPaths(VerRaceGraph.states, VerRaceGraph.insertStatus)

\* C31: while TestFSM runs on a built fsm, an Update of a concurrent caller
\* over a declared edge never fails with ErrUnknownStatus: the caller sees
\* every declared status.
C31_Claim ==
    \A p \in Procs :
        (call[p].op = "Update" /\ <<call[p].from, call[p].to>> \in VerRaceEdges)
            => call[p].err # ErrUnknownStatus

\* The sum of the lengths of the paths of a set.
RECURSIVE SumLen(_)
SumLen(paths) ==
    IF paths = {} THEN 0
    ELSE LET path == CHOOSE x \in paths : TRUE
         IN  Len(path) + SumLen(paths \ {path})

\* C32: for each path TestFSM calls Insert once and then Update once per
\* further node, from the status of the node before to the status of that
\* node, with the id that the Insert of this path returned; every call that
\* succeeds commits one event, so a successful run has committed as many
\* events as the lengths of the paths add up to; no Update misses its row,
\* and the first call that fails ends the run with its error.
C32_Theorem ==
    /\ Len(Committed(evlog)) = SumLen(ver.walked) + (IF ver.path = NoPath THEN 0 ELSE ver.k - 1)
    /\ Len(evlog) = Len(Committed(evlog))
    /\ ver.rowsMade = Cardinality(ver.walked) + (IF ver.path = NoPath THEN 0 ELSE 1)
    /\ ver.pc = "walk" =>
          /\ ver.id = ver.rowsMade
          /\ ver.from = ver.path[ver.k - 1].st
          /\ rows[ver.id] = ShiftStatus(ver.from)
          /\ Len(EventsOf(evlog, ver.id)) = ver.k - 1
          /\ IF ver.k = 2
             THEN ver.last = [NoOp EXCEPT !.op = "Insert", !.id = ver.id]
             ELSE ver.last = [op |-> "Update", from |-> ver.path[ver.k - 2].st,
                              to |-> ver.path[ver.k - 1].st, id |-> ver.id]
    /\ ver.err # ErrRowCount
    /\ ver.err \notin {Nil, errNotReachable} =>
          /\ ver.pc = "done"
          /\ ver.paths \cup ver.walked \cup (IF ver.path = NoPath THEN {} ELSE {ver.path})
                = buildPaths(fsm.states, fsm.insertStatus)
          /\ ver.path # NoPath => ver.k <= Len(ver.path)
    /\ (ver.pc = "done" /\ ver.err \in {Nil, errNotReachable}
            /\ fsm.insertStatus # NoStatus) =>
          /\ ver.walked = buildPaths(fsm.states, fsm.insertStatus)
          /\ Len(Committed(evlog)) = SumLen(buildPaths(fsm.states, fsm.insertStatus))

\* TestFSM ran without error on the chain 1 -> 2 and committed 2 events.
C32_Witness ==
    /\ ver.pc = "done"
    /\ ver.err = Nil
    /\ DOMAIN fsm.states = {1, 2}
    /\ fsm.states[1].next = {StatusUpdate}
    /\ fsm.states[2].next = {}
    /\ Len(Committed(evlog)) = 2
    /\ ver.rowsMade = 1
    /\ rows[1] = 2

\* An Update of TestFSM failed on the second path: the run ended with
\* a path left that was not walked.
C32_Stopped ==
    /\ ver.pc = "done"
    /\ ver.err = errExec
    /\ ver.last.op = "Update"
    /\ ver.walked # {}
    /\ ver.paths # {}

\* How often x occurs in a sequence.
Count(seq, x) == Cardinality({k \in 1 .. Len(seq) : seq[k] = x})

\* C33: a GenFSM.Insert or GenFSM.Update that has returned nil got a
\* notifier from the Tx call, committed once and then invoked the notifier
\* once, as its last step.
C33_Theorem ==
    \A p \in Procs :
        (Finished(p) /\ call[p].err = Nil) =>
            LET st == call[p].steps
            IN  /\ call[p].notify
                /\ Count(st, "notify") = 1
                /\ Count(st, "commit") = 1
                /\ Len(st) >= 3
                /\ st[Len(st) - 1] = "commit"
                /\ st[Len(st)] = "notify"

\* An Insert and then an Update of the row have returned nil, the Update
\* having committed and then notified.
C33_Witness ==
    /\ hist[1] = <<1, 2>>
    /\ Finished("p1")
    /\ call["p1"].op = "Update"
    /\ call["p1"].err = Nil
    /\ call["p1"].steps = <<"mutate", "emit", "commit", "notify">>

\* C34: when InsertTx or UpdateTx has returned an error, the notifier it
\* returned is nil and the identifier is zero, also when the row write and
\* the event are already staged in the transaction of the caller.
C34_Theorem ==
    \A p \in Procs :
        (pc[p] = "txdone" /\ call[p].err # Nil)
            => ~call[p].notify /\ call[p].id = 0

\* InsertTx has returned ErrInvalidType for a request without Validate after
\* staging the row and the event: no notifier, identifier zero.
C34_Witness ==
    /\ pc["p1"] = "txdone"
    /\ call["p1"].op = "Insert"
    /\ call["p1"].err = ErrInvalidType
    /\ call["p1"].steps = <<"mutate", "emit">>
    /\ tx["p1"] # NoWrite
    /\ \E k \in 1 .. Len(evlog) : evlog[k].tx = "p1"
    /\ ~call["p1"].notify
    /\ call["p1"].id = 0

\* UpdateTx has returned ErrInvalidType for a request without Validate
\* after staging the row and the event.
C34_UpdateCase ==
    /\ pc["p1"] = "txdone"
    /\ call["p1"].op = "Update"
    /\ call["p1"].err = ErrInvalidType
    /\ tx["p1"] # NoWrite
    /\ \E k \in 1 .. Len(evlog) : evlog[k].tx = "p1"
    /\ ~call["p1"].notify

\* C35: with metadata disabled no call runs GetMetadata and every event has
\* empty metadata, also for a request that has GetMetadata; with validation
\* disabled no call runs Validate, so that a call whose Validate (or
\* GetMetadata) would fail goes through once the event is inserted.
C35_Theorem ==
    /\ ~fsm.opts.withMetadata =>
          /\ \A k \in 1 .. Len(evlog) : evlog[k].meta = <<>>
          /\ \A p \in Procs :
                /\ "metadata" \notin StepSet(call[p])
                /\ (AfterTx(p) /\ call[p].fault = "meta" /\ "emit" \in StepSet(call[p])
                       /\ (fsm.opts.withValidation => HasValidate(call[p].req)))
                      => call[p].err \in {Nil, errCommit}
    /\ ~fsm.opts.withValidation =>
          \A p \in Procs :
                /\ "validate" \notin StepSet(call[p])
                /\ (AfterTx(p) /\ call[p].fault = "validate" /\ "emit" \in StepSet(call[p]))
                      => call[p].err \in {Nil, errCommit}

\* With both options disabled, an Insert of a request that has GetMetadata
\* and Validate, whose Validate would fail, has returned nil and its event
\* is committed with empty metadata.
C35_Witness ==
    /\ ~fsm.opts.withMetadata
    /\ ~fsm.opts.withValidation
    /\ Finished("p1")
    /\ call["p1"].op = "Insert"
    /\ HasMetadata(call["p1"].req)
    /\ HasValidate(call["p1"].req)
    /\ call["p1"].fault = "validate"
    /\ call["p1"].err = Nil
    /\ Len(EventsOf(evlog, 1)) = 1
    /\ EventsOf(evlog, 1)[1].meta = <<>>

\* The number of statuses committed to all rows.
RECURSIVE CommittedStatuses(_)
CommittedStatuses(ids) ==
    IF ids = {} THEN 0
    ELSE LET r == CHOOSE x \in ids : TRUE
         IN  Len(hist[r]) + CommittedStatuses(ids \ {r})

\* C36: a GenFSM.Insert or GenFSM.Update that has begun a transaction can
\* always take its next step, and when it has returned its transaction is
\* closed: nothing of it is staged any more; the visible events are those of
\* the committed status changes, one each, and a call that returned an error
\* left the row as it was.
C36_Theorem ==
    /\ \A p \in Procs :
        /\ pc[p] = "idle" => ~Staged(p)
        /\ pc[p] = "begun" => ENABLED (DoInsertTx(p) \/ DoUpdateTx(p))
        /\ pc[p] = "txdone" => ENABLED (ReturnErr(p) \/ Commit(p))
        /\ pc[p] = "committed" => ENABLED Notify(p)
        /\ (Finished(p) /\ AfterTx(p) /\ call[p].err # Nil /\ call[p].op = "Update")
              => rows[call[p].req.ID] = call[p].pre
    /\ Len(Committed(evlog)) = CommittedStatuses(RowIds)
    /\ Len(evlog) = Len(Committed(evlog))
                       + Cardinality({k \in 1 .. Len(evlog) : evlog[k].tx \in Procs})
    /\ \A k \in 1 .. Len(evlog) : evlog[k].tx \in Procs => Open(evlog[k].tx)

\* An Update whose Commit failed after the row and the event were staged has
\* returned: nothing is staged, the row and its one event are as before.
C36_Witness ==
    /\ Finished("p1")
    /\ call["p1"].op = "Update"
    /\ call["p1"].err = errCommit
    /\ call["p1"].pre = 1
    /\ rows[call["p1"].req.ID] = 1
    /\ Len(evlog) = 1
    /\ tx["p1"] = NoWrite

\* The same for ArcFSM.Insert and ArcFSM.Update, whose deferred calls run
\* after the result is fixed.
C36_Arc ==
    /\ \A p \in Procs :
        /\ pc[p] \in {"idle", "deferred"} => ~Staged(p)
        /\ pc[p] = "begun" => ENABLED (DoArcInsertTx(p) \/ DoArcUpdateTx(p))
        /\ pc[p] = "txdone" => ENABLED (ReturnErr(p) \/ ArcCommit(p))
        /\ pc[p] = "deferred" => ENABLED ArcDeferred(p)
    /\ Len(Committed(evlog)) = CommittedStatuses(RowIds)
    /\ \A k \in 1 .. Len(evlog) : evlog[k].tx \in Procs => Open(evlog[k].tx)

\* The committed status of row r is declared with an empty next set.
Terminal(r) ==
    /\ rows[r] \in DOMAIN fsm.states
    /\ fsm.states[rows[r]].next = {}

\* C37: once the committed status of a row is terminal, no step of any call
\* changes the row's status, the statuses committed to it or its events.
C37_Theorem ==
    [][\A r \in RowIds :
          Terminal(r) => /\ rows'[r] = rows[r]
                         /\ hist'[r] = hist[r]
                         /\ EventsOf(evlog', r) = EventsOf(evlog, r)]_vars

\* Row 1 is in the terminal StatusComplete, and an Update of it over the
\* declared edge Update -> Complete, begun when it was already there, has
\* returned ErrRowCount.
C37_Witness ==
    /\ rows[1] = 3
    /\ hist[1] = <<1, 2, 3>>
    /\ \E p \in Procs :
        /\ Finished(p)
        /\ call[p].op = "Update"
        /\ call[p].req.ID = 1
        /\ call[p].pre = 3
        /\ call[p].from = StatusUpdate
        /\ call[p].to = StatusComplete
        /\ call[p].err = ErrRowCount

\* C38: sameType(a, b) is true exactly when a and b have the same dynamic
\* type: contents do not matter, and two named types with the same
\* underlying type are different types.
C38_Theorem ==
    ver.pc = "typed" =>
        /\ ver.res \in BOOLEAN
        /\ ver.res <=> (ver.a.ty = ver.b.ty)
        /\ (ver.a.ty = ver.b.ty /\ ver.a.val # ver.b.val) => ver.res
        /\ (ver.a.ty # ver.b.ty /\ ver.a.under = ver.b.under) => ~ver.res

\* sameType was applied to a value of y and a value of yy with the same
\* contents and returned false.
C38_Witness ==
    /\ ver.pc = "typed"
    /\ ver.a = GoValue("y", 1)
    /\ ver.b = GoValue("yy", 1)
    /\ ~ver.res

\* sameType was applied to x{1} and x{2} and returned true.
C38_SameType ==
    /\ ver.pc = "typed"
    /\ ver.a = GoValue("x", 1)
    /\ ver.b = GoValue("x", 2)
    /\ ver.res

====
